---- MODULE Spec2Model ----
(***************************************************************************)
(* Model of lutris' launch composition (lutris/runner_interpreter.py), of   *)
(* the Wine version registry (lutris/util/wine/wine.py) and of the host    *)
(* utilities (lutris/util/system.py): executable lookup, synchronous       *)
(* command execution, the Vulkan GPU names loaded in the background.       *)
(*                                                                         *)
(* Command tokens, environment names and environment values are TLA+       *)
(* strings.  A configuration value that the code parses (limit_cpu_count,  *)
(* prefix_command, gamescope_flags, the gamescope resolutions) is a        *)
(* sequence of one-character strings, so that isnumeric, int, lower, split *)
(* and shlex.split are computed character by character.                    *)
(***************************************************************************)
EXTENDS Integers, Sequences, FiniteSets, TLC

VARIABLES
    system_config,   \* runner.system_config, a mapping of configuration keys
    runner_env,      \* the mapping returned by runner.get_env()
    gameplay_info,   \* command (a mutable list), env, ld_preload, ld_library_path
    host,            \* os.environ, the executables on PATH, gamemode, gamescope --help
    fsr_memo,        \* the value cached by @cache_single for _get_gamescope_fsr_option
    result,          \* what the last call returned or raised, with its arguments
    calls,           \* number of calls of get_launch_parameters made so far
    error_log,       \* the records logger.error / logger.exception wrote in the last call
    vulkan_gpu_names,\* system._vulkan_gpu_names, the process-wide GPU name cache
    tasks            \* the AsyncCall threads started by load_vulkan_gpu_names

vars == <<system_config, runner_env, gameplay_info, host, fsr_memo, result, calls,
          error_log, vulkan_gpu_names, tasks>>

----------------------------------------------------------------------------
(* Characters and strings *)

\* The decimal digits: str.isnumeric accepts them and int() parses them.
Digits == {"0", "1", "2", "3", "4", "5", "6", "7", "8", "9"}

\* "sup2" stands for the one character U+00B2 (superscript two) and "half" for
\* U+00BD (vulgar fraction one half): str.isnumeric is True of both, int() rejects both.
NumericOnly == {"sup2", "half"}

DigitValue(c) ==
    CASE c = "0" -> 0 [] c = "1" -> 1 [] c = "2" -> 2 [] c = "3" -> 3 [] c = "4" -> 4
      [] c = "5" -> 5 [] c = "6" -> 6 [] c = "7" -> 7 [] c = "8" -> 8 [] c = "9" -> 9

DigitChar(d) ==
    CASE d = 0 -> "0" [] d = 1 -> "1" [] d = 2 -> "2" [] d = 3 -> "3" [] d = 4 -> "4"
      [] d = 5 -> "5" [] d = 6 -> "6" [] d = 7 -> "7" [] d = 8 -> "8" [] d = 9 -> "9"

\* str.isnumeric(): non-empty and every character numeric.
isnumeric(s) == Len(s) > 0 /\ \A i \in 1..Len(s) : s[i] \in Digits \cup NumericOnly

\* int(s) succeeds on a (non-empty) string of decimal digits; every other string
\* of the alphabet raises ValueError.
IntParses(s) == Len(s) > 0 /\ \A i \in 1..Len(s) : s[i] \in Digits

RECURSIVE IntOf(_)
IntOf(s) == IF Len(s) = 0 THEN 0
            ELSE 10 * IntOf(SubSeq(s, 1, Len(s) - 1)) + DigitValue(s[Len(s)])

\* "%d" % n for n >= 0, as a token.
RECURSIVE FormatD(_)
FormatD(n) == IF n < 10 THEN DigitChar(n) ELSE FormatD(n \div 10) \o DigitChar(n % 10)

\* The token (a string) spelled by a sequence of characters.
RECURSIVE Join(_)
Join(s) == IF Len(s) = 0 THEN "" ELSE s[1] \o Join(Tail(s))

UpperCase ==
    <<"A", "B", "C", "D", "E", "F", "G", "H", "I", "J", "K", "L", "M", "N",
      "O", "P", "Q", "R", "S", "T", "U", "V", "W", "X", "Y", "Z">>
LowerCase ==
    <<"a", "b", "c", "d", "e", "f", "g", "h", "i", "j", "k", "l", "m", "n",
      "o", "p", "q", "r", "s", "t", "u", "v", "w", "x", "y", "z">>

\* str.lower(): an upper-case letter becomes its lower-case form, every other
\* character is kept.
LowerChar(c) ==
    IF \E i \in 1..Len(UpperCase) : UpperCase[i] = c
    THEN LowerCase[CHOOSE i \in 1..Len(UpperCase) : UpperCase[i] = c]
    ELSE c
lower(s) == [i \in 1..Len(s) |-> LowerChar(s[i])]

\* str.split(sep) for a one-character separator: the list of the pieces between
\* separators (always at least one piece, pieces may be empty).
RECURSIVE SplitFrom(_, _, _, _)
SplitFrom(s, sep, i, cur) ==
    IF i > Len(s) THEN <<cur>>
    ELSE IF s[i] = sep THEN <<cur>> \o SplitFrom(s, sep, i + 1, <<>>)
    ELSE SplitFrom(s, sep, i + 1, Append(cur, s[i]))
split(s, sep) == SplitFrom(s, sep, 1, <<>>)

\* Characters that may appear in a variable name for os.path.expandvars (\w).
WordChars ==
    Digits \cup {"_"} \cup {UpperCase[i] : i \in 1..Len(UpperCase)}
           \cup {LowerCase[i] : i \in 1..Len(LowerCase)}

\* The longest run of word characters of s starting at position i (exclusive end).
RECURSIVE NameEnd(_, _)
NameEnd(s, i) == IF i <= Len(s) /\ s[i] \in WordChars THEN NameEnd(s, i + 1) ELSE i

\* os.path.expandvars(s) for the $NAME form: a reference to a variable of environ
\* is replaced by its value, every other text is kept (also an unknown $NAME).
RECURSIVE ExpandFrom(_, _, _)
ExpandFrom(s, environ, i) ==
    IF i > Len(s) THEN <<>>
    ELSE IF s[i] = "$" /\ NameEnd(s, i + 1) > i + 1
            /\ Join(SubSeq(s, i + 1, NameEnd(s, i + 1) - 1)) \in DOMAIN environ
         THEN environ[Join(SubSeq(s, i + 1, NameEnd(s, i + 1) - 1))]
                  \o ExpandFrom(s, environ, NameEnd(s, i + 1))
         ELSE <<s[i]>> \o ExpandFrom(s, environ, i + 1)
expandvars(s, environ) == ExpandFrom(s, environ, 1)

\* shlex.split(s) (POSIX mode, whitespace_split) on strings without double quote
\* and backslash.  mode is " " between tokens, "a" inside a word, "q" inside
\* single quotes.  The result is [ok, tokens]; ok is FALSE when the string ends
\* inside a quotation (ValueError: No closing quotation).
RECURSIVE ShlexFrom(_, _, _, _, _)
ShlexFrom(s, i, mode, cur, toks) ==
    IF i > Len(s)
    THEN CASE mode = " " -> [ok |-> TRUE, tokens |-> toks]
           [] mode = "a" -> [ok |-> TRUE, tokens |-> Append(toks, Join(cur))]
           [] mode = "q" -> [ok |-> FALSE, tokens |-> <<>>]
    ELSE CASE mode = " " ->
                IF s[i] = " " THEN ShlexFrom(s, i + 1, " ", <<>>, toks)
                ELSE IF s[i] = "'" THEN ShlexFrom(s, i + 1, "q", <<>>, toks)
                ELSE ShlexFrom(s, i + 1, "a", <<s[i]>>, toks)
           [] mode = "a" ->
                IF s[i] = " " THEN ShlexFrom(s, i + 1, " ", <<>>, Append(toks, Join(cur)))
                ELSE IF s[i] = "'" THEN ShlexFrom(s, i + 1, "q", cur, toks)
                ELSE ShlexFrom(s, i + 1, "a", Append(cur, s[i]), toks)
           [] mode = "q" ->
                IF s[i] = "'" THEN ShlexFrom(s, i + 1, "a", cur, toks)
                ELSE ShlexFrom(s, i + 1, "q", Append(cur, s[i]), toks)
shlex_split(s) == ShlexFrom(s, 1, " ", <<>>, <<>>)
----------------------------------------------------------------------------
(* Mappings (Python dicts) and lists *)

\* The empty dict.
EmptyMap == [k \in {} |-> ""]

\* dict.update: the entries of e, overridden and extended by those of f.
Update(e, f) == [k \in DOMAIN e \cup DOMAIN f |-> IF k \in DOMAIN f THEN f[k] ELSE e[k]]

\* env[name] = value
SetKey(e, name, value) == Update(e, [k \in {name} |-> value])

\* os.pathsep.join(filter(None, parts)): the non-empty parts joined by ":".
RECURSIVE PathJoin(_)
PathJoin(parts) ==
    IF Len(parts) = 0 THEN ""
    ELSE IF parts[1] = "" THEN PathJoin(Tail(parts))
    ELSE IF PathJoin(Tail(parts)) = "" THEN parts[1]
    ELSE parts[1] \o ":" \o PathJoin(Tail(parts))

----------------------------------------------------------------------------
(* lutris/util/system.py: executable lookup *)

\* The executable names of the model that have a directory part: shutil.which
\* checks such a name as it is, without a search of PATH.
WithDirname ==
    {"/opt/wine-devel/bin/wine", "/opt/wine-staging/bin/wine",
     "/usr/lib/wine-development/wine", "/usr/lib/wine-9.0/bin/wine"}

\* shutil.which: the absolute path of an executable of PATH, "" (None) otherwise.
which(h, exec_name) ==
    IF exec_name \in WithDirname
    THEN (IF exec_name \in h.files THEN exec_name ELSE "")
    ELSE IF exec_name \in h.path THEN "/usr/bin/" \o exec_name ELSE ""

can_find_executable(h, exec_name) == exec_name # "" /\ which(h, exec_name) # ""

\* found = FALSE stands for the raised MissingExecutableError.
find_executable(h, exec_name) ==
    IF exec_name # "" /\ which(h, exec_name) # ""
    THEN [found |-> TRUE, exe |-> which(h, exec_name)]
    ELSE [found |-> FALSE, exe |-> ""]

----------------------------------------------------------------------------
(* lutris/runner_interpreter.py *)

(***************************************************************************)
(* The working state of one call of get_launch_parameters:                 *)
(*   args   the list launch_arguments is bound to                          *)
(*   cmd    the list object stored in gameplay_info["command"]             *)
(*   alias  TRUE while launch_arguments is that same list object, so that  *)
(*          an in-place insert changes both                                *)
(*   env    the environment built so far                                   *)
(*   memo   the cache of _get_gamescope_fsr_option                         *)
(*   err    "" or the exception that ended the call                        *)
(***************************************************************************)

\* launch_arguments[0:0] = toks, or a run of launch_arguments.insert(0, tok)
\* whose net effect is toks in front: the list object is changed in place.
InsertFront(st, toks) ==
    [st EXCEPT !.args = toks \o st.args,
               !.cmd = IF st.alias THEN toks \o st.args ELSE st.cmd]

\* launch_arguments = toks + launch_arguments: a new list is bound to the name.
Rebind(st, toks) == [st EXCEPT !.args = toks \o st.args, !.alias = FALSE]

Raise(st, exc) == [st EXCEPT !.err = exc]

get_mangohud_conf(cfg, h) ==
    LET mangohud_val == IF cfg.gamescope THEN "0" ELSE "1"
    IN  IF cfg.mangohud /\ can_find_executable(h, "mangohud")
        THEN [args |-> <<"mangohud">>,
              env |-> [k \in {"MANGOHUD", "MANGOHUD_DLSYM"} |->
                          IF k = "MANGOHUD" THEN mangohud_val ELSE "1"]]
        ELSE [args |-> <<>>, env |-> EmptyMap]

\* The arguments that trigger FSR: asked of `gamescope --help` once, then cached.
\* memo is <<>> while nothing is cached.
FsrProbe(h) ==
    IF can_find_executable(h, "gamescope") /\ h.help_filter
    THEN <<"-F", "fsr">>
    ELSE <<"-U">>

_get_gamescope_fsr_option(h, memo) == IF memo # <<>> THEN memo ELSE FsrProbe(h)

\* ResParts without lower(): only a lower-case "x" separates the two pieces.
ResPartsCaseSensitive(res) == split(res, "x")

\* "WxH".lower().split("x") unpacked into two names: anything but two pieces
\* raises ValueError.
ResParts(res) == split(lower(res), "x")

\* Lines 115-116.
GsGrabCursor(st, cfg) ==
    IF cfg.gamescope_force_grab_cursor
    THEN InsertFront(st, <<"--force-grab-cursor">>) ELSE st

\* Lines 117-121.
GsFsrSharpness(st, cfg, h) ==
    IF cfg.gamescope_fsr_sharpness # ""
    THEN [InsertFront(st, _get_gamescope_fsr_option(h, st.memo)
                          \o <<"--fsr-sharpness", cfg.gamescope_fsr_sharpness>>)
             EXCEPT !.memo = _get_gamescope_fsr_option(h, st.memo)]
    ELSE st

\* GsFlags with the raw flags appended: launch_arguments + gamescope_flags.
GsFlagsAppended(st, cfg) ==
    LET gamescope_flags == shlex_split(cfg.gamescope_flags)
    IN  IF cfg.gamescope_flags = <<>> THEN st
        ELSE IF gamescope_flags.ok
        THEN [st EXCEPT !.args = st.args \o gamescope_flags.tokens, !.alias = FALSE]
        ELSE Raise(st, "ValueError")

\* Lines 122-124: malformed quoting makes shlex.split raise ValueError.
GsFlags(st, cfg) ==
    LET gamescope_flags == shlex_split(cfg.gamescope_flags)
    IN  IF cfg.gamescope_flags = <<>> THEN st
        ELSE IF gamescope_flags.ok THEN Rebind(st, gamescope_flags.tokens)
        ELSE Raise(st, "ValueError")

\* Lines 125-127.
GsWindowMode(st, cfg) ==
    IF st.err = "" /\ cfg.gamescope_window_mode # ""
    THEN InsertFront(st, <<cfg.gamescope_window_mode>>) ELSE st

\* Lines 128-131.
GsFpsLimiter(st, cfg) ==
    IF st.err = "" /\ cfg.gamescope_fps_limiter # ""
    THEN InsertFront(st, <<"-r", cfg.gamescope_fps_limiter>>) ELSE st

\* Lines 132-137 and 138-143: the flags of a resolution "WxH"; anything but two
\* pieces raises ValueError at the unpacking.
GsResolution(st, res, wflag, hflag) ==
    LET parts == ResParts(res)
    IN  IF st.err # "" \/ res = <<>> THEN st
        ELSE IF Len(parts) = 2
        THEN InsertFront(st, <<wflag, Join(parts[1]), hflag, Join(parts[2])>>)
        ELSE Raise(st, "ValueError")

GsOutputRes(st, cfg) == GsResolution(st, cfg.gamescope_output_res, "-W", "-H")

GsGameRes(st, cfg) == GsResolution(st, cfg.gamescope_game_res, "-w", "-h")

\* Line 144.
GsName(st) == IF st.err = "" THEN InsertFront(st, <<"gamescope">>) ELSE st

get_gamescope_args(st, cfg, h) ==
    LET s1 == InsertFront(st, <<"--">>)
        s2 == GsGrabCursor(s1, cfg)
        s3 == GsFsrSharpness(s2, cfg, h)
        s4 == GsFlags(s3, cfg)
        s5 == GsWindowMode(s4, cfg)
        s6 == GsFpsLimiter(s5, cfg)
        s7 == GsOutputRes(s6, cfg)
        s8 == GsGameRes(s7, cfg)
    IN  GsName(s8)

\* Lines 24-35: the fixed entry, Steam compatibility, the configured locale.
BaseEnv(cfg, h) ==
    LET e0 == [k \in {"DISABLE_LAYER_AMD_SWITCHABLE_GRAPHICS_1"} |-> "1"]
        e1 == IF "SteamAppId" \in DOMAIN h.environ /\ h.environ["SteamAppId"] # <<>>
              THEN SetKey(e0, "LC_ALL", "") ELSE e0
    IN  IF cfg.locale # "" THEN SetKey(e1, "LC_ALL", cfg.locale) ELSE e1

\* Lines 37-46.
Optimus(st, cfg, h) ==
    IF cfg.optimus = "primusrun" /\ can_find_executable(h, "primusrun")
    THEN InsertFront(st, <<"primusrun">>)
    ELSE IF cfg.optimus = "optirun" /\ can_find_executable(h, "optirun")
    THEN InsertFront(st, <<"optirun", "-b", "virtualgl">>)
    ELSE IF cfg.optimus = "pvkrun" /\ can_find_executable(h, "pvkrun")
    THEN InsertFront(st, <<"pvkrun">>)
    ELSE st

\* MangoHud with the wrapper appended: launch_arguments + mango_args.
MangoHudAppended(st, cfg, h) ==
    LET conf == get_mangohud_conf(cfg, h)
    IN  IF conf.args # <<>>
        THEN [st EXCEPT !.args = st.args \o conf.args, !.alias = FALSE,
                        !.env = Update(st.env, conf.env)]
        ELSE st

\* Lines 48-52.
MangoHud(st, cfg, h) ==
    LET conf == get_mangohud_conf(cfg, h)
    IN  IF conf.args # <<>>
        THEN [Rebind(st, conf.args) EXCEPT !.env = Update(st.env, conf.env)]
        ELSE st

\* Libstrangle without the except clause: MissingExecutableError reaches the caller.
LibstrangleUncaught(st, cfg, h) ==
    IF cfg.fps_limit = "" THEN st
    ELSE IF find_executable(h, "strangle").found
    THEN Rebind(st, <<find_executable(h, "strangle").exe, cfg.fps_limit>>)
    ELSE Raise(st, "MissingExecutableError")

\* Lines 54-61: a missing strangle is caught and logged.
Libstrangle(st, cfg, h) ==
    IF cfg.fps_limit # "" /\ find_executable(h, "strangle").found
    THEN Rebind(st, <<find_executable(h, "strangle").exe, cfg.fps_limit>>)
    ELSE st

\* Lines 63-65.
PrefixCommand(st, cfg, h) ==
    LET toks == shlex_split(expandvars(cfg.prefix_command, h.environ))
    IN  IF cfg.prefix_command = <<>> THEN st
        ELSE IF toks.ok THEN Rebind(st, toks.tokens)
        ELSE Raise(st, "ValueError")

\* Lines 67-79.
SingleCpu(st, cfg) ==
    IF st.err # "" \/ ~cfg.single_cpu THEN st
    ELSE IF cfg.limit_cpu_count # <<>> /\ isnumeric(cfg.limit_cpu_count)
              /\ ~IntParses(cfg.limit_cpu_count)
    THEN Raise(st, "ValueError")
    ELSE LET parsed == IF cfg.limit_cpu_count # <<>> /\ isnumeric(cfg.limit_cpu_count)
                       THEN IntOf(cfg.limit_cpu_count) ELSE 1
             limit_cpu_count == IF parsed > 1 THEN parsed ELSE 1
         IN  InsertFront(st, <<"taskset", "-c", "0-" \o FormatD(limit_cpu_count - 1)>>)

\* MergeEnv with the two updates exchanged: the runner overrides gameplay_info.
MergeEnvGameplayFirst(st, renv, gi) ==
    IF st.err # "" THEN st
    ELSE [st EXCEPT !.env = Update(Update(st.env, gi.env), renv)]

\* MergeEnv with the runner's environment as the base that the stages' entries
\* are written over.
MergeEnvRunnerLowest(st, renv, gi) ==
    IF st.err # "" THEN st
    ELSE [st EXCEPT !.env = Update(Update(renv, st.env), gi.env)]

\* Lines 81-83: the runner's environment, then gameplay_info's.
MergeEnv(st, renv, gi) ==
    IF st.err # "" THEN st
    ELSE [st EXCEPT !.env = Update(Update(st.env, renv), gi.env)]

\* Lines 87-90.
LdPreload(st, gi) ==
    IF gi.ld_preload # ""
    THEN [st EXCEPT !.env = SetKey(st.env, "LD_PRELOAD", gi.ld_preload)]
    ELSE st

\* LdLibraryPath without filter(None, ...): an empty segment is joined too.
LdLibraryPathUnfiltered(st, gi) ==
    LET ld_library_path == IF "LD_LIBRARY_PATH" \in DOMAIN st.env
                           THEN st.env["LD_LIBRARY_PATH"] ELSE ""
    IN  IF gi.ld_library_path # ""
        THEN [st EXCEPT !.env = SetKey(st.env, "LD_LIBRARY_PATH",
                                       gi.ld_library_path \o ":" \o ld_library_path)]
        ELSE st

\* Lines 92-97: env.get gives None (here "") when the key is missing.
LdLibraryPath(st, gi) ==
    LET ld_library_path == IF "LD_LIBRARY_PATH" \in DOMAIN st.env
                           THEN st.env["LD_LIBRARY_PATH"] ELSE ""
    IN  IF gi.ld_library_path # ""
        THEN [st EXCEPT !.env = SetKey(st.env, "LD_LIBRARY_PATH",
                                       PathJoin(<<gi.ld_library_path, ld_library_path>>))]
        ELSE st

\* FeralGamemode with launch_arguments.append("gamemoderun").
FeralGamemodeAppended(st, cfg, h) ==
    IF st.err = "" /\ cfg.gamemode /\ h.gamemode
    THEN [st EXCEPT !.args = Append(st.args, "gamemoderun"),
                    !.cmd = IF st.alias THEN Append(st.args, "gamemoderun") ELSE st.cmd]
    ELSE st

\* Lines 99-102.
FeralGamemode(st, cfg, h) ==
    IF st.err = "" /\ cfg.gamemode /\ h.gamemode THEN InsertFront(st, <<"gamemoderun">>) ELSE st

\* Lines 104-107.
Gamescope(st, cfg, h) ==
    IF st.err = "" /\ cfg.gamescope /\ can_find_executable(h, "gamescope")
    THEN get_gamescope_args(st, cfg, h)
    ELSE st

\* get_launch_parameters with the last two stages exchanged: gamemoderun is
\* put in front after gamescope has wrapped the command.
get_launch_parameters_gamemode_last(cfg, renv, gi, h, memo) ==
    LET s0  == [args |-> gi.command, cmd |-> gi.command, alias |-> TRUE,
                env |-> BaseEnv(cfg, h), memo |-> memo, err |-> ""]
        s1  == Optimus(s0, cfg, h)
        s2  == MangoHud(s1, cfg, h)
        s3  == Libstrangle(s2, cfg, h)
        s4  == PrefixCommand(s3, cfg, h)
        s5  == SingleCpu(s4, cfg)
        s6  == MergeEnv(s5, renv, gi)
        s7  == LdPreload(s6, gi)
        s8  == LdLibraryPath(s7, gi)
        s9  == Gamescope(s8, cfg, h)
    IN  FeralGamemode(s9, cfg, h)

\* get_launch_parameters that starts from an empty list instead of
\* gameplay_info["command"]: the wrappers are built around nothing.
get_launch_parameters_command_dropped(cfg, renv, gi, h, memo) ==
    LET s0  == [args |-> <<>>, cmd |-> gi.command, alias |-> FALSE,
                env |-> BaseEnv(cfg, h), memo |-> memo, err |-> ""]
        s1  == Optimus(s0, cfg, h)
        s2  == MangoHud(s1, cfg, h)
        s3  == Libstrangle(s2, cfg, h)
        s4  == PrefixCommand(s3, cfg, h)
        s5  == SingleCpu(s4, cfg)
        s6  == MergeEnv(s5, renv, gi)
        s7  == LdPreload(s6, gi)
        s8  == LdLibraryPath(s7, gi)
        s9  == FeralGamemode(s8, cfg, h)
    IN  Gamescope(s9, cfg, h)

\* The working state at the end of get_launch_parameters(runner, gameplay_info).
\* An exception (err) ends the call: the stages after it do not run.
get_launch_parameters(cfg, renv, gi, h, memo) ==
    LET s0  == [args |-> gi.command, cmd |-> gi.command, alias |-> TRUE,
                env |-> BaseEnv(cfg, h), memo |-> memo, err |-> ""]
        s1  == Optimus(s0, cfg, h)
        s2  == MangoHud(s1, cfg, h)
        s3  == Libstrangle(s2, cfg, h)
        s4  == PrefixCommand(s3, cfg, h)
        s5  == SingleCpu(s4, cfg)
        s6  == MergeEnv(s5, renv, gi)
        s7  == LdPreload(s6, gi)
        s8  == LdLibraryPath(s7, gi)
        s9  == FeralGamemode(s8, cfg, h)
    IN  Gamescope(s9, cfg, h)

----------------------------------------------------------------------------
(* Inputs *)

\* Configuration strings that the code parses, character by character.
FLAGS_OK == <<"-", "e", " ", " ", "-", "-", "x", "w", "a", "y", "l", "a", "n", "d", "-", "c", "o", "u", "n", "t", " ", "2">>
RES_LOWER == <<"1", "9", "2", "0", "x", "1", "0", "8", "0">>
RES_UPPER == <<"1", "9", "2", "0", "X", "1", "0", "8", "0">>
RES_GAME == <<"6", "4", "0", "x", "4", "8", "0">>

\* How many times get_launch_parameters is called on the same gameplay_info.
MaxCalls == 2

OptimusTools == {"primusrun", "optirun", "pvkrun"}

\* The stage switches of runner.system_config.
StageConfigs ==
    [optimus: {"off"} \cup OptimusTools,
     mangohud: BOOLEAN,
     fps_limit: {"", "60"},
     prefix_command: {<<>>,
                      <<"$", "B", " ", "-", "n", " ", "'", "5", " ", "6", "'">>,
                      <<"e", "n", "v", " ", "'", "A">>},
     single_cpu: BOOLEAN,
     limit_cpu_count: {<<>>, <<"4">>, <<"0">>, <<"1", "2">>,
                       <<"b", "o", "g", "u", "s">>, <<"sup2">>},
     gamemode: BOOLEAN,
     gamescope: BOOLEAN]

\* No stage enabled.
StagesOff ==
    [optimus |-> "off", mangohud |-> FALSE, fps_limit |-> "", prefix_command |-> <<>>,
     single_cpu |-> FALSE, limit_cpu_count |-> <<>>, gamemode |-> FALSE,
     gamescope |-> FALSE]

\* The gamescope sub-flag keys of runner.system_config.
GamescopeConfigs ==
    [gamescope_force_grab_cursor: BOOLEAN,
     gamescope_fsr_sharpness: {"", "2"},
     gamescope_flags: {<<>>, FLAGS_OK, <<"-", "e", " ", "'">>},
     gamescope_window_mode: {"", "-f"},
     gamescope_fps_limiter: {"", "60"},
     gamescope_output_res: {<<>>, RES_LOWER, RES_UPPER, <<"1", "9", "2", "0">>},
     gamescope_game_res: {<<>>, RES_GAME}]

GamescopeUnset ==
    [gamescope_force_grab_cursor |-> FALSE, gamescope_fsr_sharpness |-> "",
     gamescope_flags |-> <<>>, gamescope_window_mode |-> "",
     gamescope_fps_limiter |-> "", gamescope_output_res |-> <<>>,
     gamescope_game_res |-> <<>>]

GamescopeAllSet ==
    [gamescope_force_grab_cursor |-> TRUE, gamescope_fsr_sharpness |-> "2",
     gamescope_flags |-> FLAGS_OK, gamescope_window_mode |-> "-f",
     gamescope_fps_limiter |-> "60", gamescope_output_res |-> RES_LOWER,
     gamescope_game_res |-> RES_GAME]

\* A key the code never reads in a configuration is left unset: limit_cpu_count
\* is read only under single_cpu, the gamescope sub-flags only under gamescope.
ReadKeysOnly(stage, gs) ==
    /\ (~stage.single_cpu => stage.limit_cpu_count = <<>>)
    /\ (~stage.gamescope => gs = GamescopeUnset)

\* The executables and capabilities get_launch_parameters asks the host about
\* under cfg (every lookup is behind its configuration switch).
AskedTools(cfg) ==
    ({cfg.optimus} \cap OptimusTools)
      \cup (IF cfg.mangohud THEN {"mangohud"} ELSE {})
      \cup (IF cfg.fps_limit # "" THEN {"strangle"} ELSE {})
      \cup (IF cfg.gamescope THEN {"gamescope"} ELSE {})

\* os.environ: B is there for the prefix command to expand, SteamAppId is set
\* when the launcher itself was started by Steam.
Environs(steam) ==
    {[k \in {"B"} |-> <<"n", "i", "c", "e">>]}
      \cup (IF steam THEN {[k \in {"B", "SteamAppId"} |->
                              IF k = "B" THEN <<"n", "i", "c", "e">> ELSE <<"2", "2", "0">>]}
            ELSE {})

\* The hosts that differ in something the call under cfg can observe.
HostsFor(cfg, steam) ==
    [environ: Environs(steam),
     path: SUBSET AskedTools(cfg),
     gamemode: IF cfg.gamemode THEN BOOLEAN ELSE {FALSE},
     help_filter: IF cfg.gamescope /\ cfg.gamescope_fsr_sharpness # ""
                  THEN BOOLEAN ELSE {FALSE}]

\* The hosts on which every tool asked for is present.
FullHostsFor(cfg) ==
    {h \in HostsFor(cfg, FALSE) : h.path = AskedTools(cfg) /\ h.gamemode = cfg.gamemode}

Commands == {<<"game">>, <<"wine", "game.exe">>}

RunnerEnvs ==
    {EmptyMap,
     [k \in {"WINEDEBUG"} |-> "-all"],
     [k \in {"LC_ALL", "WINEDEBUG"} |-> IF k = "LC_ALL" THEN "C" ELSE "-all"],
     [k \in {"MANGOHUD", "MANGOHUD_DLSYM"} |-> "r"],
     [k \in {"DISABLE_LAYER_AMD_SWITCHABLE_GRAPHICS_1"} |-> "0"],
     [k \in {"LD_LIBRARY_PATH", "LD_PRELOAD"} |->
         IF k = "LD_LIBRARY_PATH" THEN "/runner/lib" ELSE "/runner/pre.so"],
     [k \in {"LD_LIBRARY_PATH"} |-> ""]}

GameplayEnvs ==
    {EmptyMap,
     [k \in {"WINEDEBUG"} |-> "+all"],
     [k \in {"LC_ALL", "MANGOHUD"} |-> "g"],
     [k \in {"LD_LIBRARY_PATH", "LD_PRELOAD"} |->
         IF k = "LD_LIBRARY_PATH" THEN "/genv/lib" ELSE "/genv/pre.so"]}

NoResult == [status |-> "none", command |-> <<>>, env |-> EmptyMap]
\* The hosts of HostsFor(cfg, steam) without those that differ only in a help
\* text that is never read (gamescope missing).
ObservableHosts(cfg, steam) ==
    {h \in HostsFor(cfg, steam) : h.help_filter => "gamescope" \in h.path}

\* Every combination of the wrapper stages, present and missing tools included.
InitStages ==
    /\ \E stage \in StageConfigs, gs \in {GamescopeUnset, GamescopeAllSet} :
          /\ ReadKeysOnly(stage, gs)
          /\ system_config = [locale |-> ""] @@ stage @@ gs
    /\ host \in ObservableHosts(system_config, FALSE)
    /\ runner_env = [k \in {"WINEDEBUG"} |-> "-all"]
    /\ gameplay_info = [command |-> <<"wine", "game.exe">>, env |-> EmptyMap,
                        ld_preload |-> "", ld_library_path |-> ""]

\* Every combination of the gamescope sub-flags, around a few inner commands.
InitGamescope ==
    /\ \E stage \in StageConfigs, gs \in GamescopeConfigs :
          /\ stage.gamescope
          /\ stage = [StagesOff EXCEPT !.gamescope = TRUE, !.gamemode = stage.gamemode,
                                       !.mangohud = stage.mangohud,
                                       !.optimus = stage.optimus]
          /\ stage.optimus \in {"off", "primusrun"}
          /\ system_config = [locale |-> ""] @@ stage @@ gs
    /\ host \in FullHostsFor(system_config)
    /\ runner_env = EmptyMap
    /\ gameplay_info \in [command: Commands, env: {EmptyMap}, ld_preload: {""},
                          ld_library_path: {""}]

\* Every combination of the sources of the environment.
InitEnv ==
    /\ \E stage \in StageConfigs, locale \in {"", "fr_FR.UTF-8"} :
          /\ stage = [StagesOff EXCEPT !.gamescope = stage.gamescope,
                                       !.mangohud = stage.mangohud]
          /\ system_config = [locale |-> locale] @@ stage @@ GamescopeUnset
    /\ host \in ObservableHosts(system_config, TRUE)
    /\ runner_env \in RunnerEnvs
    /\ gameplay_info \in [command: {<<"game">>}, env: GameplayEnvs,
                          ld_preload: {"", "/game/pre.so"},
                          ld_library_path: {"", "/game/lib"}]

Init ==
    /\ InitStages \/ InitGamescope \/ InitEnv
    /\ fsr_memo = <<>>
    /\ result = NoResult
    /\ calls = 0
    /\ error_log = <<>>
    /\ vulkan_gpu_names = EmptyMap
    /\ tasks = <<>>

----------------------------------------------------------------------------
(* Operations *)

\* One call get_launch_parameters(runner, gameplay_info): it returns the command
\* and the environment, or raises; the list in gameplay_info["command"] keeps the
\* in-place inserts made while launch_arguments was that list.
CallGetLaunchParameters ==
    /\ calls < MaxCalls
    /\ LET st == get_launch_parameters(system_config, runner_env, gameplay_info,
                                       host, fsr_memo)
       IN  /\ result' = IF st.err = ""
                        THEN [status |-> "ok", command |-> st.args, env |-> st.env]
                        ELSE [status |-> st.err, command |-> <<>>, env |-> EmptyMap]
           /\ gameplay_info' = [gameplay_info EXCEPT !.command = st.cmd]
           /\ fsr_memo' = st.memo
    /\ calls' = calls + 1
    /\ UNCHANGED <<system_config, runner_env, host, error_log, vulkan_gpu_names, tasks>>

Next == CallGetLaunchParameters

Spec == Init /\ [][Next]_vars
----------------------------------------------------------------------------
(* What the specification expects of a launch, stated from the configuration *)
(* and the host, independently of the pipeline above                         *)

OptimusApplies(cfg, h) == cfg.optimus \in OptimusTools /\ cfg.optimus \in h.path
MangohudApplies(cfg, h) == cfg.mangohud /\ "mangohud" \in h.path
StrangleApplies(cfg, h) == cfg.fps_limit # "" /\ "strangle" \in h.path
PrefixApplies(cfg) == cfg.prefix_command # <<>>
TasksetApplies(cfg) == cfg.single_cpu
GamemodeApplies(cfg, h) == cfg.gamemode /\ h.gamemode
GamescopeApplies(cfg, h) == cfg.gamescope /\ "gamescope" \in h.path

OptimusTokens(cfg) ==
    IF cfg.optimus = "optirun" THEN <<"optirun", "-b", "virtualgl">> ELSE <<cfg.optimus>>

\* The wrappers inside gamescope, outermost first, around the base command;
\* range is the third token of the taskset wrapper.
NestedWrappers(cfg, h, base, range) ==
    (IF GamemodeApplies(cfg, h) THEN <<"gamemoderun">> ELSE <<>>)
      \o (IF TasksetApplies(cfg) THEN <<"taskset", "-c", range>> ELSE <<>>)
      \o (IF PrefixApplies(cfg)
          THEN shlex_split(expandvars(cfg.prefix_command, h.environ)).tokens ELSE <<>>)
      \o (IF StrangleApplies(cfg, h) THEN <<"/usr/bin/strangle", cfg.fps_limit>> ELSE <<>>)
      \o (IF MangohudApplies(cfg, h) THEN <<"mangohud">> ELSE <<>>)
      \o (IF OptimusApplies(cfg, h) THEN OptimusTokens(cfg) ELSE <<>>)
      \o base

TokensOf(seq) == {seq[i] : i \in 1..Len(seq)}

\* A call has just returned (the step is one call, and it did not raise).
Returned == calls' = calls + 1 /\ result'.status = "ok"

\* C1: the wrappers applied nest in the fixed order, outermost first: gamescope
\* with its flags and "--", gamemoderun, taskset -c <range>, the prefix-command
\* tokens, strangle <limit>, mangohud, the Optimus tokens, and the base command
\* of gameplay_info (as it was when the call was made) as the final suffix.
C1_NestingOrder ==
    [][Returned =>
         LET c == result'.command
             base == gameplay_info.command
         IN  \E range \in TokensOf(c) \cup {""} :
                IF GamescopeApplies(system_config, host)
                THEN /\ c[1] = "gamescope"
                     /\ \E i \in 2..Len(c) :
                           /\ c[i] = "--"
                           /\ SubSeq(c, i + 1, Len(c))
                                = NestedWrappers(system_config, host, base, range)
                ELSE c = NestedWrappers(system_config, host, base, range)]_vars

\* Every stage applied in one returned launch.
C1_Witness ==
    /\ calls = 1 /\ result.status = "ok"
    /\ GamescopeApplies(system_config, host) /\ GamemodeApplies(system_config, host)
    /\ TasksetApplies(system_config) /\ PrefixApplies(system_config)
    /\ StrangleApplies(system_config, host) /\ MangohudApplies(system_config, host)
    /\ OptimusApplies(system_config, host)
    /\ Len(result.command) > 12

\* C2: with gamescope disabled and gamemode enabled and available, token 0 of
\* the returned vector is gamemoderun, whatever other stages are enabled.
C2_GamemodeFirst ==
    (/\ result.status = "ok"
     /\ ~system_config.gamescope
     /\ system_config.gamemode /\ host.gamemode)
        => result.command[1] = "gamemoderun"

\* gamemoderun in front of a taskset, prefix, strangle, mangohud, Optimus nest.
C2_Witness ==
    /\ result.status = "ok"
    /\ ~system_config.gamescope /\ GamemodeApplies(system_config, host)
    /\ TasksetApplies(system_config) /\ PrefixApplies(system_config)
    /\ StrangleApplies(system_config, host) /\ MangohudApplies(system_config, host)
    /\ OptimusApplies(system_config, host)
    /\ result.command[1] = "gamemoderun" /\ result.command[2] = "taskset"

\* The position of the first "--" of a vector (0 when there is none).
FirstSeparator(c) ==
    IF \E i \in 1..Len(c) : c[i] = "--"
    THEN CHOOSE i \in 1..Len(c) : c[i] = "--" /\ \A j \in 1..(i - 1) : c[j] # "--"
    ELSE 0

\* C3: with gamescope and gamemode both enabled and available, token 0 is
\* gamescope and gamemoderun is the token right after the "--" that the
\* gamescope stage inserted (no configured flag is a bare "--", so that
\* separator is the first "--" of the vector).
C3_GamescopeWrapsGamemode ==
    (/\ result.status = "ok"
     /\ GamescopeApplies(system_config, host)
     /\ GamemodeApplies(system_config, host))
        => /\ result.command[1] = "gamescope"
           /\ FirstSeparator(result.command) > 1
           /\ FirstSeparator(result.command) < Len(result.command)
           /\ result.command[FirstSeparator(result.command) + 1] = "gamemoderun"

\* gamescope with sub-flags around gamemoderun.
C3_Witness ==
    /\ result.status = "ok"
    /\ GamescopeApplies(system_config, host) /\ GamemodeApplies(system_config, host)
    /\ system_config.gamescope_flags # <<>>
    /\ FirstSeparator(result.command) > 4
    /\ result.command[FirstSeparator(result.command) + 1] = "gamemoderun"
\* N = max(1, limit_cpu_count parsed as an integer), 1 when it does not parse.
ExpectedCpuCount(cfg) ==
    IF IntParses(cfg.limit_cpu_count) /\ IntOf(cfg.limit_cpu_count) > 1
    THEN IntOf(cfg.limit_cpu_count) ELSE 1

ExpectedRange(cfg) == "0-" \o FormatD(ExpectedCpuCount(cfg) - 1)

\* The flag group of a resolution "WxH", for either spelling of the separator.
ResolutionGroup(res, wflag, hflag) ==
    IF res = <<>> THEN <<>>
    ELSE <<wflag, Join(split(lower(res), "x")[1]), hflag, Join(split(lower(res), "x")[2])>>

\* The gamescope sub-flags, one group per configuration key that is set.
ExpectedGamescopeFlags(cfg, h) ==
    ResolutionGroup(cfg.gamescope_game_res, "-w", "-h")
      \o ResolutionGroup(cfg.gamescope_output_res, "-W", "-H")
      \o (IF cfg.gamescope_fps_limiter # "" THEN <<"-r", cfg.gamescope_fps_limiter>> ELSE <<>>)
      \o (IF cfg.gamescope_window_mode # "" THEN <<cfg.gamescope_window_mode>> ELSE <<>>)
      \o (IF cfg.gamescope_flags # <<>> THEN shlex_split(cfg.gamescope_flags).tokens ELSE <<>>)
      \o (IF cfg.gamescope_fsr_sharpness # ""
          THEN (IF h.help_filter THEN <<"-F", "fsr">> ELSE <<"-U">>)
                 \o <<"--fsr-sharpness", cfg.gamescope_fsr_sharpness>>
          ELSE <<>>)
      \o (IF cfg.gamescope_force_grab_cursor THEN <<"--force-grab-cursor">> ELSE <<>>)

\* C4: when the gamescope stage applies its output is gamescope, the configured
\* sub-flags (a group only for a key that is set), "--", then the whole vector
\* as it stood before the stage, unchanged; with gamescope configured but not
\* installed the stage adds no token.
C4_GamescopeWrapsWhole ==
    [][(Returned /\ system_config.gamescope) =>
         LET before == NestedWrappers(system_config, host, gameplay_info.command,
                                      ExpectedRange(system_config))
         IN  IF "gamescope" \in host.path
             THEN result'.command
                    = <<"gamescope">> \o ExpectedGamescopeFlags(system_config, host)
                        \o <<"--">> \o before
             ELSE result'.command = before]_vars

\* gamescope applied with some sub-flags set and others not, around a wrapper.
C4_Witness ==
    /\ calls = 1 /\ result.status = "ok"
    /\ GamescopeApplies(system_config, host)
    /\ system_config.gamescope_fsr_sharpness # "" /\ host.help_filter
    /\ system_config.gamescope_flags # <<>>
    /\ system_config.gamescope_output_res = RES_UPPER
    /\ system_config.gamescope_window_mode = ""
    /\ ~system_config.gamescope_force_grab_cursor
    /\ MangohudApplies(system_config, host)
    /\ result.command[1] = "gamescope"

\* C5: with single_cpu true (gamemode and gamescope not applying, and a prefix
\* command that tokenizes) the call returns a vector that begins with taskset,
\* -c, 0-<N-1>, N = max(1, limit_cpu_count as an integer), N = 1 when
\* limit_cpu_count is missing or is not a number.
C5_TasksetPrefix ==
    (/\ calls >= 1
     /\ system_config.single_cpu
     /\ ~GamemodeApplies(system_config, host)
     /\ ~GamescopeApplies(system_config, host)
     /\ shlex_split(expandvars(system_config.prefix_command, host.environ)).ok)
        => /\ result.status = "ok"
           /\ Len(result.command) >= 3
           /\ SubSeq(result.command, 1, 3) = <<"taskset", "-c", ExpectedRange(system_config)>>

\* Some tool or capability the configuration asks for is not on the host.
SomeToolMissing(cfg, h) ==
    ~(AskedTools(cfg) \subseteq h.path) \/ (cfg.gamemode /\ ~h.gamemode)

\* The configuration holds a value that the code cannot parse.
ParseFailure(cfg, h) ==
    \/ ~shlex_split(expandvars(cfg.prefix_command, h.environ)).ok
    \/ (cfg.single_cpu /\ isnumeric(cfg.limit_cpu_count) /\ ~IntParses(cfg.limit_cpu_count))
    \/ (GamescopeApplies(cfg, h)
          /\ \/ ~shlex_split(cfg.gamescope_flags).ok
             \/ (cfg.gamescope_output_res # <<>>
                   /\ Len(split(lower(cfg.gamescope_output_res), "x")) # 2)
             \/ (cfg.gamescope_game_res # <<>>
                   /\ Len(split(lower(cfg.gamescope_game_res), "x")) # 2))

\* The names of the environment entries a launch produces.
ExpectedEnvKeys(cfg, h, renv, gi) ==
    {"DISABLE_LAYER_AMD_SWITCHABLE_GRAPHICS_1"}
      \cup (IF "SteamAppId" \in DOMAIN h.environ \/ cfg.locale # "" THEN {"LC_ALL"} ELSE {})
      \cup (IF MangohudApplies(cfg, h) THEN {"MANGOHUD", "MANGOHUD_DLSYM"} ELSE {})
      \cup DOMAIN renv \cup DOMAIN gi.env
      \cup (IF gi.ld_preload # "" THEN {"LD_PRELOAD"} ELSE {})
      \cup (IF gi.ld_library_path # "" THEN {"LD_LIBRARY_PATH"} ELSE {})

\* C6: a missing optional tool never makes the call fail (it raises only for a
\* value it cannot parse); the stage of a missing tool contributes no command
\* token and no environment entry, and the other stages produce their output.
C6_MissingToolSkipsStage ==
    [][(calls' = calls + 1 /\ SomeToolMissing(system_config, host)) =>
         LET cfg == system_config
             c == result'.command
         IN  /\ result'.status \in {"ok", "ValueError"}
             /\ result'.status = "ValueError" => ParseFailure(cfg, host)
             /\ result'.status = "ok" =>
                  /\ \A t \in AskedTools(cfg) \ host.path :
                        t \notin TokensOf(c) /\ ("/usr/bin/" \o t) \notin TokensOf(c)
                  /\ (cfg.optimus = "optirun" /\ "optirun" \notin host.path)
                        => "virtualgl" \notin TokensOf(c)
                  /\ (cfg.gamemode /\ ~host.gamemode) => "gamemoderun" \notin TokensOf(c)
                  /\ (cfg.gamescope /\ "gamescope" \notin host.path)
                        => "--" \notin TokensOf(c)
                  /\ c = (IF GamescopeApplies(cfg, host)
                          THEN <<"gamescope">> \o ExpectedGamescopeFlags(cfg, host) \o <<"--">>
                          ELSE <<>>)
                           \o NestedWrappers(cfg, host, gameplay_info.command,
                                             ExpectedRange(cfg))
                  /\ DOMAIN result'.env = ExpectedEnvKeys(cfg, host, runner_env, gameplay_info)
                  /\ (cfg.mangohud /\ "mangohud" \notin host.path) =>
                        \A k \in {"MANGOHUD", "MANGOHUD_DLSYM"} \cap DOMAIN result'.env :
                           result'.env[k] = Update(runner_env, gameplay_info.env)[k]]_vars

\* A launch that returned although the Optimus tool, mangohud, strangle,
\* gamescope and gamemode are all asked for and all missing.
C6_Witness ==
    /\ calls = 1 /\ result.status = "ok"
    /\ system_config.optimus = "optirun" /\ system_config.mangohud
    /\ system_config.fps_limit # "" /\ system_config.gamescope /\ system_config.gamemode
    /\ host.path = {} /\ ~host.gamemode
    /\ system_config.single_cpu /\ PrefixApplies(system_config)
    /\ result.command[1] = "taskset"
\* gameplay_info rewrites this key after the merge (stage LD_PRELOAD / LD_LIBRARY_PATH).
RewrittenByGameplay(gi, k) ==
    \/ (k = "LD_PRELOAD" /\ gi.ld_preload # "")
    \/ (k = "LD_LIBRARY_PATH" /\ gi.ld_library_path # "")

\* C7 as stated: every key supplied both by runner.get_env() and by
\* gameplay_info's env overrides has the gameplay_info env value in the result.
C7_GameplayEnvWins ==
    result.status = "ok" =>
        \A k \in DOMAIN runner_env \cap DOMAIN gameplay_info.env :
            result.env[k] = gameplay_info.env[k]

\* C7 amended: the same, except for LD_PRELOAD when gameplay_info supplies
\* ld_preload and LD_LIBRARY_PATH when it supplies ld_library_path, which the
\* next stage rewrites.
C7_GameplayEnvWinsUnlessRewritten ==
    result.status = "ok" =>
        \A k \in DOMAIN runner_env \cap DOMAIN gameplay_info.env :
            ~RewrittenByGameplay(gameplay_info, k)
                => result.env[k] = gameplay_info.env[k]

\* A key with different values in the two sources, returned with gameplay's.
C7_Witness ==
    /\ result.status = "ok"
    /\ "LC_ALL" \in DOMAIN runner_env \cap DOMAIN gameplay_info.env
    /\ runner_env["LC_ALL"] # gameplay_info.env["LC_ALL"]
    /\ system_config.locale # ""
    /\ result.env["LC_ALL"] = gameplay_info.env["LC_ALL"]

\* The value a stage before the merge sets for key k; StageSets tells whether
\* one does.
StageSets(cfg, h, k) ==
    \/ k = "DISABLE_LAYER_AMD_SWITCHABLE_GRAPHICS_1"
    \/ (k = "LC_ALL" /\ ("SteamAppId" \in DOMAIN h.environ \/ cfg.locale # ""))
    \/ (k \in {"MANGOHUD", "MANGOHUD_DLSYM"} /\ MangohudApplies(cfg, h))

StageValue(cfg, h, k) ==
    CASE k = "LC_ALL" -> cfg.locale
      [] k = "MANGOHUD" -> IF cfg.gamescope THEN "0" ELSE "1"
      [] OTHER -> "1"

\* C8 as stated: when runner.get_env() contains a key that a stage also sets,
\* the result holds the stage's value, not the runner's (keys that gameplay_info
\* overrides as well are left aside).
C8_RunnerEnvLowest ==
    result.status = "ok" =>
        \A k \in DOMAIN runner_env \ DOMAIN gameplay_info.env :
            StageSets(system_config, host, k)
                => result.env[k] = StageValue(system_config, host, k)

\* C8 amended: the runner's environment is merged after the stages that set
\* LC_ALL, MANGOHUD, MANGOHUD_DLSYM and the pre-pass entry, so its value
\* replaces theirs; only gameplay_info (its env overrides, ld_preload,
\* ld_library_path) takes precedence over it.
C8_RunnerEnvOverridesStages ==
    result.status = "ok" =>
        \A k \in DOMAIN runner_env \ DOMAIN gameplay_info.env :
            ~RewrittenByGameplay(gameplay_info, k)
                => result.env[k] = runner_env[k]

\* The runner supplies LC_ALL, the locale stage set another value, and the
\* result holds the runner's.
C8_Witness ==
    /\ result.status = "ok"
    /\ "LC_ALL" \in DOMAIN runner_env /\ "LC_ALL" \notin DOMAIN gameplay_info.env
    /\ system_config.locale # "" /\ system_config.locale # runner_env["LC_ALL"]
    /\ result.env["LC_ALL"] = runner_env["LC_ALL"]

\* C9: when the overlay stage applies the result has MANGOHUD_DLSYM = "1" and
\* MANGOHUD = "0" if the gamescope stage wraps the command, "1" otherwise
\* (unless the runner or gameplay_info supplies the variable itself); when the
\* stage does not apply the Composer sets neither variable.
C9_MangohudEnv ==
    result.status = "ok" =>
        \A k \in {"MANGOHUD", "MANGOHUD_DLSYM"} \ (DOMAIN runner_env \cup DOMAIN gameplay_info.env) :
            IF MangohudApplies(system_config, host)
            THEN /\ k \in DOMAIN result.env
                 /\ result.env[k] = (IF k = "MANGOHUD" /\ GamescopeApplies(system_config, host)
                                     THEN "0" ELSE "1")
            ELSE k \notin DOMAIN result.env

\* What env.get("LD_LIBRARY_PATH") finds in the merged runner/gameplay environment.
ExistingLibraryPath(renv, gi) ==
    IF "LD_LIBRARY_PATH" \in DOMAIN gi.env THEN gi.env["LD_LIBRARY_PATH"]
    ELSE IF "LD_LIBRARY_PATH" \in DOMAIN renv THEN renv["LD_LIBRARY_PATH"]
    ELSE ""

\* C10: with ld_library_path supplied, LD_LIBRARY_PATH is the gameplay path,
\* then ":" and the value already in the merged environment when there is a
\* non-empty one (no empty segment otherwise); with ld_preload supplied,
\* LD_PRELOAD is that value, whatever the runner or gameplay env held.
C10_LdVariables ==
    result.status = "ok" =>
        /\ gameplay_info.ld_library_path # "" =>
              /\ "LD_LIBRARY_PATH" \in DOMAIN result.env
              /\ result.env["LD_LIBRARY_PATH"]
                   = (IF ExistingLibraryPath(runner_env, gameplay_info) = ""
                      THEN gameplay_info.ld_library_path
                      ELSE gameplay_info.ld_library_path \o ":"
                             \o ExistingLibraryPath(runner_env, gameplay_info))
        /\ gameplay_info.ld_preload # "" =>
              /\ "LD_PRELOAD" \in DOMAIN result.env
              /\ result.env["LD_PRELOAD"] = gameplay_info.ld_preload

\* Both supplied, over a runner environment that holds both variables.
C10_Witness ==
    /\ result.status = "ok"
    /\ gameplay_info.ld_library_path # "" /\ gameplay_info.ld_preload # ""
    /\ "LD_PRELOAD" \in DOMAIN runner_env
    /\ ExistingLibraryPath(runner_env, gameplay_info) = "/runner/lib"
    /\ result.env["LD_LIBRARY_PATH"] = "/game/lib:/runner/lib"
    /\ result.env["LD_PRELOAD"] = "/game/pre.so"

\* C11: whatever the configuration and whichever tools are present, a call
\* made with a non-empty gameplay_info command returns a non-empty command
\* vector.
C11_NonEmptyCommand ==
    [][(Returned /\ gameplay_info.command # <<>>) => result'.command # <<>>]_vars

\* A non-empty base command returned with no wrapper around it, and one
\* returned under wrappers.
C11_Witness ==
    /\ calls = 1 /\ result.status = "ok"
    /\ ~GamescopeApplies(system_config, host) /\ ~MangohudApplies(system_config, host)
    /\ result.command = <<"game">>

\* The separator of a resolution "WxH", written x or X, and the two numbers
\* around it.
SeparatorAt(res) == CHOOSE i \in 1..Len(res) : res[i] \in {"x", "X"}
WidthOf(res) == Join(SubSeq(res, 1, SeparatorAt(res) - 1))
HeightOf(res) == Join(SubSeq(res, SeparatorAt(res) + 1, Len(res)))
OtherSpelling(res) ==
    [i \in 1..Len(res) |-> IF res[i] = "x" THEN "X" ELSE IF res[i] = "X" THEN "x" ELSE res[i]]

\* Some four adjacent tokens of c before position last are toks.
AdjacentBefore(c, toks, last) ==
    \E i \in 1..(last - Len(toks)) : SubSeq(c, i, i + Len(toks) - 1) = toks

\* C12: with gamescope_output_res = "WxH" and the gamescope stage applying, the
\* call returns, and the returned vector has the adjacent tokens -W, W, -H, H
\* among the gamescope flags before "--"; the call with the separator written
\* in the other case (x for X, X for x) gives the same command, environment
\* and outcome.
C12_OutputResolution ==
    [][(/\ calls' = calls + 1
        /\ GamescopeApplies(system_config, host)
        /\ system_config.gamescope_output_res \in {RES_LOWER, RES_UPPER}
        /\ ~ParseFailure(system_config, host))
         => LET res == system_config.gamescope_output_res
                other == get_launch_parameters(
                             [system_config EXCEPT !.gamescope_output_res = OtherSpelling(res)],
                             runner_env, gameplay_info, host, fsr_memo)
            IN  /\ result'.status = "ok"
                /\ result'.command[1] = "gamescope"
                /\ AdjacentBefore(result'.command,
                                  <<"-W", WidthOf(res), "-H", HeightOf(res)>>,
                                  FirstSeparator(result'.command))
                /\ other.err = ""
                /\ other.args = result'.command
                /\ other.env = result'.env]_vars

\* The upper-case spelling returned with -W 1920 -H 1080 in the flags.
C12_Witness ==
    /\ calls = 1 /\ result.status = "ok"
    /\ GamescopeApplies(system_config, host)
    /\ system_config.gamescope_output_res = RES_UPPER
    /\ system_config.gamescope_game_res # <<>>
    /\ AdjacentBefore(result.command, <<"-W", "1920", "-H", "1080">>,
                      FirstSeparator(result.command))

----------------------------------------------------------------------------
(* lutris/util/wine/wine.py: the Wine version registry                      *)
(*                                                                          *)
(* A version name is a sequence of characters (the code tests it for the    *)
(* substring "Proton" and joins it into paths); a path is a TLA+ string.    *)

\* Python's None where a string may stand: a value that no string equals.
None == <<"None">>

\* bool(value) of a string or None.
Truthy(value) == value # None /\ value # <<>>

\* needle in s, s.startswith(prefix).
Contains(s, needle) ==
    \E i \in 1..(Len(s) - Len(needle) + 1) : SubSeq(s, i, i + Len(needle) - 1) = needle
StartsWith(s, prefix) == Len(s) >= Len(prefix) /\ SubSeq(s, 1, Len(prefix)) = prefix

PROTON == <<"P", "r", "o", "t", "o", "n">>
WINE_DASH == <<"w", "i", "n", "e", "-">>

\* Version names asked for, and directory names found on the host.
V_SYSTEM == <<"s", "y", "s", "t", "e", "m">>
V_PROTON_8 == <<"P", "r", "o", "t", "o", "n", "-", "8", ".", "0">>
V_CUSTOM == <<"c", "u", "s", "t", "o", "m">>
V_ABSENT == <<"l", "u", "t", "r", "i", "s", "-", "0", ".", "1">>
CUSTOM_WINE == <<"/", "o", "p", "t", "/", "m", "y", "w", "i", "n", "e", "/", "b", "i", "n",
                 "/", "w", "i", "n", "e">>

\* settings.RUNNER_DIR joined with "wine".
WINE_DIR == "/home/user/.local/share/lutris/runners/wine"

\* The directories _iter_proton_locations yields for the Steam library
\* /steam/steamapps: its "common" folder, then the library itself, which
\* os.path.join(p, "") writes with a trailing separator.
ProtonLocations == {"/steam/steamapps/common", "/steam/steamapps/"}
TrailingSeparator == {"/steam/steamapps/", "/usr/lib/"}

\* os.path.join(directory, name): an absolute name replaces the directory, a
\* separator is added unless the directory ends with one.
os_path_join(directory, name) ==
    IF name # <<>> /\ name[1] = "/" THEN Join(name)
    ELSE IF directory \in TrailingSeparator THEN directory \o Join(name)
    ELSE directory \o "/" \o Join(name)

\* os.path.isfile / system.path_exists of a path of the model.
is_file(h, path) == path \in h.files

\* os.listdir of /usr/lib/ and of a Proton location: the folders that hold one
\* of the host's files, beside folders that hold no Wine.
listdir_usr_lib(h) ==
    {<<"p", "y", "t", "h", "o", "n", "3">>}
      \cup {c \in {<<"w", "i", "n", "e", "-", "9", ".", "0">>} :
              is_file(h, os_path_join("/usr/lib/", c) \o "/bin/wine")}
listdir(h, location) ==
    {<<"H", "a", "l", "f", "-", "L", "i", "f", "e">>}
      \cup {p \in {V_PROTON_8} :
              \E runtime \in {"/dist/bin/wine", "/files/bin/wine"} :
                  is_file(h, os_path_join(location, p) \o runtime)}

\* Lines 19-36: the static table, and one entry "System <folder>" for every
\* /usr/lib/wine-* folder that holds bin/wine.
WINE_PATHS(h) ==
    LET found == {c \in listdir_usr_lib(h) :
                    /\ StartsWith(c, WINE_DASH)
                    /\ is_file(h, os_path_join("/usr/lib/", c) \o "/bin/wine")}
        names == {"winehq-devel", "winehq-staging", "wine-development", "system"}
                   \cup {"System " \o Join(c) : c \in found}
    IN  [name \in names |->
            CASE name = "winehq-devel" -> "/opt/wine-devel/bin/wine"
              [] name = "winehq-staging" -> "/opt/wine-staging/bin/wine"
              [] name = "wine-development" -> "/usr/lib/wine-development/wine"
              [] name = "system" -> "wine"
              [] OTHER -> os_path_join("/usr/lib/",
                              CHOOSE c \in found : name = "System " \o Join(c)) \o "/bin/wine"]

\* Lines 54-64: the locations that hold a Proton folder with a Wine runtime, as
\* a set; list(paths) hands them out in an order the code does not choose.
get_proton_paths(h) ==
    {path \in ProtonLocations :
        \E version \in {p \in listdir(h, path) : Contains(p, PROTON)} :
            \/ is_file(h, os_path_join(path, version) \o "/dist/bin/wine")
            \/ is_file(h, os_path_join(path, version) \o "/files/bin/wine")}

\* The lists that list(paths) can be.
ListsOf(paths) ==
    {l \in [1..Cardinality(paths) -> paths] : \A i, j \in DOMAIN l : l[i] = l[j] => i = j}

\* ProtonRuntime that tries files before dist in each location.
RECURSIVE ProtonRuntimeFilesFirst(_, _, _)
ProtonRuntimeFilesFirst(h, version, proton_paths) ==
    IF proton_paths = <<>> THEN ""
    ELSE IF is_file(h, os_path_join(Head(proton_paths), version) \o "/files/bin/wine")
    THEN os_path_join(Head(proton_paths), version) \o "/files/bin/wine"
    ELSE IF is_file(h, os_path_join(Head(proton_paths), version) \o "/dist/bin/wine")
    THEN os_path_join(Head(proton_paths), version) \o "/dist/bin/wine"
    ELSE ProtonRuntimeFilesFirst(h, version, Tail(proton_paths))

\* Lines 191-195: the first runtime found, walking the locations in list order
\* and trying dist before files in each; "" when the loop ends without one.
RECURSIVE ProtonRuntime(_, _, _)
ProtonRuntime(h, version, proton_paths) ==
    IF proton_paths = <<>> THEN ""
    ELSE IF is_file(h, os_path_join(Head(proton_paths), version) \o "/dist/bin/wine")
    THEN os_path_join(Head(proton_paths), version) \o "/dist/bin/wine"
    ELSE IF is_file(h, os_path_join(Head(proton_paths), version) \o "/files/bin/wine")
    THEN os_path_join(Head(proton_paths), version) \o "/files/bin/wine"
    ELSE ProtonRuntime(h, version, Tail(proton_paths))

\* A configuration handed to wine.py: None, or a dict of strings.
NoneConfig == [None |-> TRUE]
ConfigTruthy(config) == config # NoneConfig /\ DOMAIN config # {}

\* config.get(key): None when the key is missing.
ConfigGet(config, key) == IF key \in DOMAIN config THEN config[key] ELSE None

Path(path) == [status |-> "ok", path |-> path]
Fails(exc) == [status |-> exc, path |-> ""]

\* ResolveVersion whose last rule checks the file: a version that is not
\* installed in WINE_DIR is refused.
ResolveVersionVerified(version, config, h, proton_paths) ==
    LET proton == IF Contains(version, PROTON)
                  THEN ProtonRuntime(h, version, proton_paths) ELSE ""
    IN  IF Join(version) \in DOMAIN WINE_PATHS(h)
        THEN (IF find_executable(h, WINE_PATHS(h)[Join(version)]).found
              THEN Path(find_executable(h, WINE_PATHS(h)[Join(version)]).exe)
              ELSE Fails("MissingExecutableError"))
        ELSE IF proton # "" THEN Path(proton)
        ELSE IF version = V_CUSTOM
        THEN (IF config = NoneConfig THEN Fails("RuntimeError")
              ELSE IF ~Truthy(ConfigGet(config, "custom_wine_path")) THEN Fails("RuntimeError")
              ELSE Path(Join(ConfigGet(config, "custom_wine_path"))))
        ELSE IF is_file(h, os_path_join(WINE_DIR, version) \o "/bin/wine")
        THEN Path(os_path_join(WINE_DIR, version) \o "/bin/wine")
        ELSE Fails("MisconfigurationError")

\* ResolveVersion whose "custom" rule returns whatever the configuration
\* holds, an empty path when it holds none.
ResolveVersionCustomUnchecked(version, config, h, proton_paths) ==
    LET proton == IF Contains(version, PROTON)
                  THEN ProtonRuntime(h, version, proton_paths) ELSE ""
    IN  IF Join(version) \in DOMAIN WINE_PATHS(h)
        THEN (IF find_executable(h, WINE_PATHS(h)[Join(version)]).found
              THEN Path(find_executable(h, WINE_PATHS(h)[Join(version)]).exe)
              ELSE Fails("MissingExecutableError"))
        ELSE IF proton # "" THEN Path(proton)
        ELSE IF version = V_CUSTOM
        THEN (IF Truthy(ConfigGet(config, "custom_wine_path"))
              THEN Path(Join(ConfigGet(config, "custom_wine_path")))
              ELSE Path(""))
        ELSE Path(os_path_join(WINE_DIR, version) \o "/bin/wine")

\* Lines 188-203, for a version that is set.
ResolveVersion(version, config, h, proton_paths) ==
    LET proton == IF Contains(version, PROTON)
                  THEN ProtonRuntime(h, version, proton_paths) ELSE ""
    IN  IF Join(version) \in DOMAIN WINE_PATHS(h)
        THEN (IF find_executable(h, WINE_PATHS(h)[Join(version)]).found
              THEN Path(find_executable(h, WINE_PATHS(h)[Join(version)]).exe)
              ELSE Fails("MissingExecutableError"))
        ELSE IF proton # "" THEN Path(proton)
        ELSE IF version = V_CUSTOM
        THEN (IF config = NoneConfig THEN Fails("RuntimeError")
              ELSE IF ~Truthy(ConfigGet(config, "custom_wine_path")) THEN Fails("RuntimeError")
              ELSE Path(Join(ConfigGet(config, "custom_wine_path"))))
        ELSE Path(os_path_join(WINE_DIR, version) \o "/bin/wine")

\* Lines 179-203: the path returned, or the exception raised.
get_wine_path_for_version(version, config, h, proton_paths) ==
    IF ~Truthy(version) /\ ConfigTruthy(config) /\ "version" \notin DOMAIN config
    THEN Fails("KeyError")
    ELSE LET asked == IF ~Truthy(version) /\ ConfigTruthy(config)
                      THEN config["version"] ELSE version
         IN  IF ~Truthy(asked) THEN Fails("UnspecifiedVersionError")
             ELSE ResolveVersion(asked, config, h, proton_paths)

\* The arguments of get_wine_path_for_version.
VersionArguments ==
    {None, <<>>, V_SYSTEM, V_PROTON_8, V_CUSTOM, V_ABSENT,
     <<"w", "i", "n", "e", "h", "q", "-", "s", "t", "a", "g", "i", "n", "g">>,
     <<"S", "y", "s", "t", "e", "m", " ", "w", "i", "n", "e", "-", "9", ".", "0">>,
     <<"l", "u", "t", "r", "i", "s", "-", "7", ".", "2">>}

WineConfigs ==
    {NoneConfig, EmptyMap}
      \cup [{"version"} -> {<<>>, V_SYSTEM, V_PROTON_8, V_CUSTOM, V_ABSENT}]
      \cup [{"custom_wine_path"} -> {<<>>, CUSTOM_WINE}]
      \cup {[k \in {"version", "custom_wine_path"} |-> IF k = "version" THEN v ELSE p] :
               v \in {<<>>, V_CUSTOM}, p \in {<<>>, CUSTOM_WINE}}

\* The files a host may hold: system-wide builds, Proton runtimes in the two
\* locations, one build installed by lutris.
HostFiles ==
    {"/opt/wine-staging/bin/wine", "/usr/lib/wine-9.0/bin/wine",
     "/steam/steamapps/common/Proton-8.0/dist/bin/wine",
     "/steam/steamapps/common/Proton-8.0/files/bin/wine",
     "/steam/steamapps/Proton-8.0/dist/bin/wine",
     "/steam/steamapps/Proton-8.0/files/bin/wine",
     "/home/user/.local/share/lutris/runners/wine/lutris-7.2/bin/wine"}

WineHosts == [path: SUBSET {"wine"}, files: SUBSET HostFiles]

\* No call made yet.
NoCall == [fn |-> "none"]

\* The launcher and the GPU name loader at rest.
LauncherIdle ==
    /\ system_config = EmptyMap
    /\ runner_env = EmptyMap
    /\ gameplay_info = [command |-> <<>>, env |-> EmptyMap, ld_preload |-> "",
                        ld_library_path |-> ""]
    /\ fsr_memo = <<>>
    /\ calls = 0
GpuIdle == vulkan_gpu_names = EmptyMap /\ tasks = <<>>

InitWine ==
    /\ host \in WineHosts
    /\ result = NoCall
    /\ error_log = <<>>
    /\ LauncherIdle
    /\ GpuIdle

\* One call get_wine_path_for_version(version, config) on the host; the order
\* of get_proton_paths() is any order of its set.  The function keeps nothing
\* from one call to the next, so a behaviour is one call.
CallGetWinePathForVersion ==
    /\ result = NoCall
    /\ \E version \in VersionArguments, config \in WineConfigs,
          proton_paths \in ListsOf(get_proton_paths(host)) :
          LET r == get_wine_path_for_version(version, config, host, proton_paths)
          IN  result' = [fn |-> "get_wine_path_for_version", version |-> version,
                         config |-> config, status |-> r.status, path |-> r.path]
    /\ error_log' = <<>>
    /\ UNCHANGED <<system_config, runner_env, gameplay_info, host, fsr_memo, calls,
                   vulkan_gpu_names, tasks>>

NextWine == CallGetWinePathForVersion

SpecWine == InitWine /\ [][NextWine]_vars

----------------------------------------------------------------------------
(* What the specification expects of the version registry *)

WineCall == result.fn = "get_wine_path_for_version"

\* The version string a call works with: the argument, or the configuration's
\* version when the argument is empty or None; None when there is neither.
AskedVersion ==
    IF Truthy(result.version) THEN result.version
    ELSE ConfigGet(result.config, "version")

\* The sources that can locate a version on the host.
SystemBuildInstalled(h, version) ==
    /\ Join(version) \in DOMAIN WINE_PATHS(h)
    /\ \/ WINE_PATHS(h)[Join(version)] \in h.files
       \/ WINE_PATHS(h)[Join(version)] \in h.path
ProtonInstalledAt(h, version, location, runtime) ==
    (location \o (IF location \in TrailingSeparator THEN "" ELSE "/") \o Join(version)
       \o "/" \o runtime \o "/bin/wine") \in h.files
ProtonInstalled(h, version) ==
    /\ Contains(version, PROTON)
    /\ \E location \in ProtonLocations, runtime \in {"dist", "files"} :
          ProtonInstalledAt(h, version, location, runtime)
CustomConfigured(version, config) ==
    version = V_CUSTOM /\ Truthy(ConfigGet(config, "custom_wine_path"))
ManagedPath(version) == WINE_DIR \o "/" \o Join(version) \o "/bin/wine"
ManagedInstalled(h, version) == ManagedPath(version) \in h.files

\* C13: the registry never returns a path for a version string it cannot
\* locate: when the version matches no installed system build, no Proton
\* install and no configured custom path (and no build installed by lutris
\* either), the call signals failure instead of returning a path.
C13_NoPathForUnlocated ==
    (/\ WineCall
     /\ ~SystemBuildInstalled(host, AskedVersion)
     /\ ~ProtonInstalled(host, AskedVersion)
     /\ ~CustomConfigured(AskedVersion, result.config)
     /\ ~ManagedInstalled(host, AskedVersion))
        => result.status # "ok"

\* C13 as the code has it: a returned path is never empty; a version string
\* that matches no installed system build, no Proton install and no
\* configured custom path fails only if it is a name of the system table
\* (MissingExecutableError) or "custom" (RuntimeError), and otherwise gets the
\* path <WINE_DIR>/<version>/bin/wine, whether or not that file exists.
C13_UnlocatedFallsBack ==
    WineCall =>
        /\ (result.status = "ok" => result.path # "")
        /\ (/\ Truthy(AskedVersion)
            /\ ~SystemBuildInstalled(host, AskedVersion)
            /\ ~ProtonInstalled(host, AskedVersion)
            /\ ~CustomConfigured(AskedVersion, result.config))
              => IF Join(AskedVersion) \in DOMAIN WINE_PATHS(host)
                 THEN result.status = "MissingExecutableError"
                 ELSE IF AskedVersion = V_CUSTOM
                 THEN result.status = "RuntimeError"
                 ELSE /\ result.status = "ok"
                      /\ result.path = ManagedPath(AskedVersion)

\* A version installed nowhere gets a path in WINE_DIR.
C13_Witness ==
    /\ WineCall
    /\ AskedVersion = V_ABSENT
    /\ ~ManagedInstalled(host, V_ABSENT)
    /\ result.status = "ok"
    /\ result.path = "/home/user/.local/share/lutris/runners/wine/lutris-0.1/bin/wine"

\* C14: with no version string available from either argument (version empty
\* or None, and config None, empty, without a version key, or with an empty
\* version value) the call fails with UnspecifiedVersionError and no other
\* error.
C14_UnspecifiedVersion ==
    (/\ WineCall
     /\ ~Truthy(result.version)
     /\ \/ result.config = NoneConfig
        \/ DOMAIN result.config = {}
        \/ "version" \notin DOMAIN result.config
        \/ ~Truthy(result.config["version"]))
        => result.status = "UnspecifiedVersionError"

\* C15: resolving "custom" raises when the configuration is absent or its
\* custom_wine_path is missing or empty, never returns an empty path, and
\* returns a non-empty custom_wine_path unchanged.
C15_CustomPath ==
    (WineCall /\ AskedVersion = V_CUSTOM)
        => IF \/ result.config = NoneConfig
              \/ "custom_wine_path" \notin DOMAIN result.config
              \/ result.config["custom_wine_path"] = <<>>
           THEN result.status \notin {"ok", "none"}
           ELSE /\ result.status = "ok"
                /\ result.path = Join(result.config["custom_wine_path"])
                /\ result.path # ""

\* "custom" taken from the configuration and resolved to the configured path.
C15_Witness ==
    /\ WineCall
    /\ result.version = <<>>
    /\ result.config = [k \in {"version", "custom_wine_path"} |->
                           IF k = "version" THEN V_CUSTOM ELSE CUSTOM_WINE]
    /\ result.status = "ok"
    /\ result.path = "/opt/mywine/bin/wine"

\* C16: the four sources are tried in the order system table, Proton trees,
\* "custom", lutris folder, and the first whose rule matches decides: a name
\* of the system table is found on PATH or the call fails; else a name that
\* contains "Proton" and is installed gets the runtime of one location, dist
\* before files; else "custom" gets the configured path or the call fails;
\* else the path is <WINE_DIR>/<version>/bin/wine.
C16_ResolutionOrder ==
    (WineCall /\ Truthy(AskedVersion)) =>
        LET version == AskedVersion
        IN  IF Join(version) \in DOMAIN WINE_PATHS(host)
            THEN IF SystemBuildInstalled(host, version)
                 THEN /\ result.status = "ok"
                      /\ \/ /\ result.path = WINE_PATHS(host)[Join(version)]
                            /\ result.path \in host.files
                         \/ /\ result.path = "/usr/bin/" \o WINE_PATHS(host)[Join(version)]
                            /\ WINE_PATHS(host)[Join(version)] \in host.path
                 ELSE result.status = "MissingExecutableError"
            ELSE IF ProtonInstalled(host, version)
            THEN /\ result.status = "ok"
                 /\ \E location \in ProtonLocations :
                       LET folder == location
                                       \o (IF location \in TrailingSeparator THEN "" ELSE "/")
                                       \o Join(version)
                       IN  \/ /\ result.path = folder \o "/dist/bin/wine"
                              /\ ProtonInstalledAt(host, version, location, "dist")
                           \/ /\ result.path = folder \o "/files/bin/wine"
                              /\ ProtonInstalledAt(host, version, location, "files")
                              /\ ~ProtonInstalledAt(host, version, location, "dist")
            ELSE IF version = V_CUSTOM
            THEN IF CustomConfigured(version, result.config)
                 THEN result.status = "ok"
                        /\ result.path = Join(result.config["custom_wine_path"])
                 ELSE result.status = "RuntimeError"
            ELSE result.status = "ok" /\ result.path = ManagedPath(version)

\* A Proton version with both runtimes in a location resolves to dist.
C16_Witness ==
    /\ WineCall
    /\ result.version = V_PROTON_8
    /\ {"/steam/steamapps/common/Proton-8.0/dist/bin/wine",
        "/steam/steamapps/common/Proton-8.0/files/bin/wine"} \subseteq host.files
    /\ result.status = "ok"
    /\ result.path = "/steam/steamapps/common/Proton-8.0/dist/bin/wine"

----------------------------------------------------------------------------
(* lutris/util/wine/wine.py: WINEDLLOVERRIDES *)

NATIVE == <<"n", "a", "t", "i", "v", "e">>
BUILTIN == <<"b", "u", "i", "l", "t", "i", "n">>
DISABLED == <<"d", "i", "s", "a", "b", "l", "e", "d">>
NATIVE_BUILTIN == <<"n", "a", "t", "i", "v", "e", ",", "b", "u", "i", "l", "t", "i", "n">>
BUILTIN_NATIVE == <<"b", "u", "i", "l", "t", "i", "n", ",", " ", "n", "a", "t", "i", "v", "e">>

\* str.replace(old, new): every occurrence, left to right, without overlap.
RECURSIVE ReplaceFrom(_, _, _, _)
ReplaceFrom(s, old, new, i) ==
    IF i > Len(s) THEN <<>>
    ELSE IF StartsWith(SubSeq(s, i, Len(s)), old)
    THEN new \o ReplaceFrom(s, old, new, i + Len(old))
    ELSE <<s[i]>> \o ReplaceFrom(s, old, new, i + 1)
replace(s, old, new) == ReplaceFrom(s, old, new, 1)

\* separator.join(strings)
RECURSIVE JoinWith(_, _)
JoinWith(strings, separator) ==
    IF strings = <<>> THEN ""
    ELSE IF Len(strings) = 1 THEN strings[1]
    ELSE strings[1] \o separator \o JoinWith(Tail(strings), separator)

\* The DLL names of the model, in the order sorted() puts them.
DllNames == <<"d3d9", "mscoree", "winemenubuilder">>
sorted(dlls) == SelectSeq(DllNames, LAMBDA dll : dll \in dlls)

\* Line 318: the keys of override_buckets, in the order of the OrderedDict.
OverrideBuckets == <<"n,b", "b,n", "b", "n", "d", "">>

\* Lines 320-325: the bucket key computed from an override value.
BucketKey(value) ==
    Join(replace(replace(replace(replace(IF Truthy(value) THEN value ELSE <<>>,
                                         <<" ">>, <<>>),
                                 BUILTIN, <<"b">>),
                         NATIVE, <<"n">>),
                 DISABLED, <<>>))

\* Lines 314-337: the dict after overrides.update(default_overrides), the
\* string returned, the values logged as invalid.
get_overrides_env(overrides) ==
    LET updated == Update(overrides, [dll \in {"winemenubuilder"} |-> <<>>])
        bucket(key) == {dll \in DOMAIN updated : BucketKey(updated[dll]) = key}
        filled == SelectSeq(OverrideBuckets, LAMBDA key : bucket(key) # {})
        override_strings ==
            [i \in 1..Len(filled) |->
                JoinWith(sorted(bucket(filled[i])), ",") \o "=" \o filled[i]]
        invalid == SelectSeq(DllNames, LAMBDA dll :
                       /\ dll \in DOMAIN updated
                       /\ \A i \in 1..Len(OverrideBuckets) :
                             BucketKey(updated[dll]) # OverrideBuckets[i])
    IN  [overrides |-> updated,
         value |-> JoinWith(override_strings, ";"),
         logged |-> [i \in 1..Len(invalid) |->
                        "Invalid override value " \o BucketKey(updated[invalid[i]])]]

\* The override values a configuration may hold for a DLL.
OverrideValues ==
    {NATIVE, BUILTIN, DISABLED, NATIVE_BUILTIN, BUILTIN_NATIVE, <<>>, None,
     <<"d">>, <<"n">>, <<"n", "a", "t", "i", "v", "e", "o", "n", "l", "y">>}

\* The dicts handed to get_overrides_env.
OverrideDicts ==
    UNION {[dlls -> OverrideValues] : dlls \in SUBSET {"d3d9", "mscoree"}}
      \cup {[dll \in {"d3d9", "winemenubuilder"} |-> NATIVE]}

InitOverrides ==
    /\ host = [path |-> {}, files |-> {}]
    /\ result = NoCall
    /\ error_log = <<>>
    /\ LauncherIdle
    /\ GpuIdle

\* One call get_overrides_env(overrides); the caller's dict is updated in place.
CallGetOverridesEnv ==
    /\ result = NoCall
    /\ \E overrides \in OverrideDicts :
          LET r == get_overrides_env(overrides)
          IN  /\ result' = [fn |-> "get_overrides_env", argument |-> overrides,
                            overrides |-> r.overrides, status |-> "ok", value |-> r.value]
              /\ error_log' = r.logged
    /\ UNCHANGED <<system_config, runner_env, gameplay_info, host, fsr_memo, calls,
                   vulkan_gpu_names, tasks>>

NextOverrides == CallGetOverridesEnv

SpecOverrides == InitOverrides /\ [][NextOverrides]_vars

\* The key of the bucket the specification gives a mode.
ModeBucket(value) ==
    CASE value = NATIVE -> "n"
      [] value = BUILTIN -> "b"
      [] value = DISABLED -> "d"
      [] value = NATIVE_BUILTIN -> "n,b"
      [] value = BUILTIN_NATIVE -> "b,n"
      [] OTHER -> ""

\* The serialization the specification describes: each DLL in the bucket of
\* its mode, the buckets in the order n,b / b,n / b / n / d / empty, the
\* non-empty ones only, joined by ";".
ExpectedOverrides(overrides) ==
    LET bucket(key) == {dll \in DOMAIN overrides : ModeBucket(overrides[dll]) = key}
        filled == SelectSeq(OverrideBuckets, LAMBDA key : bucket(key) # {})
    IN  JoinWith([i \in 1..Len(filled) |->
                     JoinWith(sorted(bucket(filled[i])), ",") \o "=" \o filled[i]], ";")

\* C17: get_overrides_env({"d3d9": "native", "mscoree": "disabled"}) is
\* "d3d9=n;mscoree=d"; in general each DLL lands in the bucket of its mode
\* (native -> n, builtin -> b, disabled -> d, the combinations n,b and b,n),
\* the buckets come in the order n,b / b,n / b / n / d / empty and only the
\* non-empty ones appear.
C17_OverridesSerialization ==
    (/\ result.fn = "get_overrides_env"
     /\ \A dll \in DOMAIN result.argument :
           result.argument[dll]
               \in {NATIVE, BUILTIN, DISABLED, NATIVE_BUILTIN, BUILTIN_NATIVE})
        => /\ result.value = ExpectedOverrides(result.argument)
           /\ (result.argument = [dll \in {"d3d9", "mscoree"} |->
                                     IF dll = "d3d9" THEN NATIVE ELSE DISABLED]
                 => result.value = "d3d9=n;mscoree=d")

----------------------------------------------------------------------------
(* lutris/util/system.py: synchronous command execution                     *)
(*                                                                          *)
(* A command is a list of words, each a sequence of characters.  What the   *)
(* subprocess does is an input: run = [outcome, stdout, stderr].            *)

Whitespace == {" ", "\n", "\t"}

\* str.strip()
RECURSIVE lstrip(_)
lstrip(s) == IF s = <<>> \/ Head(s) \notin Whitespace THEN s ELSE lstrip(Tail(s))
Reversed(s) == [i \in 1..Len(s) |-> s[Len(s) + 1 - i]]
strip(s) == Reversed(lstrip(Reversed(lstrip(s))))

\* A Python value returned by _execute: a str, or a tuple of two str.
PyStr(s) == [type |-> "str", chars |-> s]
PyTuple(a, b) == [type |-> "tuple", items |-> <<a, b>>]

\* Lines 50-56: os.environ without the BASH_FUNC entries.
get_environment(h) ==
    [key \in DOMAIN h.environ \ {"BASH_FUNC_which%%"} |-> h.environ[key]]

\* Lines 107-112: the environment handed to Popen.
PopenEnv(env, h) ==
    IF env = NoneConfig \/ DOMAIN env = {} THEN get_environment(h)
    ELSE Update(get_environment(h), [k \in {key \in DOMAIN env : env[key] # None} |-> env[k]])

\* Lines 94-134: the value returned, the errors logged, the environment
\* Popen was given (none when Popen is not reached).
_execute(command, env, capture_stderr, timeout, h, run) ==
    IF command = <<>>
    THEN [value |-> PyStr(<<>>), logged |-> <<"No executable provided!">>,
          popen_env |-> EmptyMap]
    ELSE IF command[1] # <<>> /\ command[1][1] = "/" /\ ~is_file(h, Join(command[1]))
    THEN [value |-> PyStr(<<>>), logged |-> <<"No executable found in command">>,
          popen_env |-> EmptyMap]
    ELSE IF run.outcome \in {"OSError", "TypeError"}
    THEN [value |-> PyStr(<<>>), logged |-> <<"Could not run command">>,
          popen_env |-> PopenEnv(env, h)]
    ELSE IF run.outcome = "TimeoutExpired"
    THEN [value |-> PyStr(<<>>), logged |-> <<"Command after timeout seconds">>,
          popen_env |-> PopenEnv(env, h)]
    ELSE [value |-> PyTuple(strip(run.stdout),
                            strip(IF capture_stderr THEN run.stderr ELSE <<>>)),
          logged |-> <<>>, popen_env |-> PopenEnv(env, h)]

\* stdout, _stderr = value: a tuple of two, or any other iterable of two items.
Unpacks(value) == value.type = "tuple" \/ Len(value.chars) = 2

\* Lines 59-74: stdout, or the ValueError of the unpacking.
execute(command, env, timeout, h, run) ==
    LET r == _execute(command, env, FALSE, timeout, h, run)
    IN  IF ~Unpacks(r.value)
        THEN [status |-> "ValueError", value |-> PyStr(<<>>), logged |-> r.logged,
              popen_env |-> r.popen_env]
        ELSE [status |-> "ok",
              value |-> PyStr(IF r.value.type = "tuple" THEN r.value.items[1]
                              ELSE <<r.value.chars[1]>>),
              logged |-> r.logged, popen_env |-> r.popen_env]

\* Lines 77-91: what _execute returns, as it is.
execute_with_error(command, env, timeout, h, run) ==
    LET r == _execute(command, env, TRUE, timeout, h, run)
    IN  [status |-> "ok", value |-> r.value, logged |-> r.logged,
         popen_env |-> r.popen_env]

\* The commands run, the env arguments, the timeouts (0 stands for None).
ExecCommands == {<<>>, <<<<"/", "o", "p", "t", "/", "t">>>>, <<<<"l", "s">>, <<"-", "l">>>>}
ExecEnvs == {NoneConfig, [k \in {"A"} |-> <<"1">>], [k \in {"A", "B"} |-> None]}
Timeouts == {0, 5}

\* What the subprocess can do under a command: fail to start, run over the
\* timeout when there is one, or end with some output.
Runs(command, timeout, h) ==
    [outcome: {"OSError"}, stdout: {<<>>}, stderr: {<<>>}]
      \cup (IF timeout # 0 THEN [outcome: {"TimeoutExpired"}, stdout: {<<>>}, stderr: {<<>>}]
            ELSE {})
      \cup (IF command # <<>> /\ (Join(command[1]) \in h.files \/ Join(command[1]) \in h.path)
            THEN [outcome: {"completed"},
                  stdout: {<<>>, <<"o", "k">>, <<" ", "o", "k", "\n">>},
                  stderr: {<<>>, <<"e", "\n">>}]
            ELSE {})

ExecHosts ==
    [path: SUBSET {"ls"}, files: SUBSET {"/opt/t"},
     environ: {[k \in {"B", "BASH_FUNC_which%%"} |-> <<"x">>]}]

InitExecute ==
    /\ host \in ExecHosts
    /\ result = NoCall
    /\ error_log = <<>>
    /\ LauncherIdle
    /\ GpuIdle

\* One call execute(command, env, timeout=timeout).
CallExecute ==
    /\ result = NoCall
    /\ \E command \in ExecCommands, env \in ExecEnvs, timeout \in Timeouts :
          \E run \in Runs(command, timeout, host) :
              LET r == execute(command, env, timeout, host, run)
              IN  /\ result' = [fn |-> "execute", command |-> command, env |-> env,
                                timeout |-> timeout, run |-> run,
                                popen_env |-> r.popen_env,
                                status |-> r.status, value |-> r.value]
                  /\ error_log' = r.logged
    /\ UNCHANGED <<system_config, runner_env, gameplay_info, host, fsr_memo, calls,
                   vulkan_gpu_names, tasks>>

\* One call execute_with_error(command, env, timeout=timeout).
CallExecuteWithError ==
    /\ result = NoCall
    /\ \E command \in ExecCommands, env \in ExecEnvs, timeout \in Timeouts :
          \E run \in Runs(command, timeout, host) :
              LET r == execute_with_error(command, env, timeout, host, run)
              IN  /\ result' = [fn |-> "execute_with_error", command |-> command,
                                env |-> env, timeout |-> timeout, run |-> run,
                                popen_env |-> r.popen_env,
                                status |-> r.status, value |-> r.value]
                  /\ error_log' = r.logged
    /\ UNCHANGED <<system_config, runner_env, gameplay_info, host, fsr_memo, calls,
                   vulkan_gpu_names, tasks>>

NextExecute == CallExecute \/ CallExecuteWithError

SpecExecute == InitExecute /\ [][NextExecute]_vars

\* The subprocess of a call could not be started, or ran over the timeout.
StartFailureOrTimeout ==
    \/ result.command = <<>>
    \/ (result.command[1][1] = "/" /\ Join(result.command[1]) \notin host.files)
    \/ result.run.outcome \in {"OSError", "TimeoutExpired"}

\* The value is empty output: an empty string, alone or for stdout and stderr.
EmptyOutput(value) ==
    IF value.type = "str" THEN value.chars = <<>> ELSE value.items = <<<<>>, <<>>>>

\* C18: execute and execute_with_error never raise when the subprocess cannot
\* be started (empty command, missing absolute executable, OSError) or when
\* the timeout expires; the caller receives empty output and an error is
\* logged.
C18_ExecuteNeverRaises ==
    (result.fn \in {"execute", "execute_with_error"} /\ StartFailureOrTimeout)
        => /\ result.status = "ok"
           /\ EmptyOutput(result.value)
           /\ error_log # <<>>

\* ---------------------------------------------------------------------------
\* Vulkan GPU names: src/lutris/util/system.py, lines 643-793.
\*
\* A host of this part adds to the search path: icd_files, the list returned
\* by get_vk_icd_files() (lines 725-772); popen, whether starting a process
\* raises; vulkaninfo, the first line of the deviceName summary printed by
\* vulkaninfo for <<VK_ICD_FILENAMES, DRI_PRIME set>>.  File names and outputs
\* are sequences of characters; cache keys and GPU names are strings.
\* ---------------------------------------------------------------------------

\* ICD loader files of the model.
IcdFile ==
    [intel |-> <<"/", "i", "c", "d", ".", "d", "/", "i", "n", "t", "e", "l",
                ".", "j", "s", "o", "n">>,
     hasvk |-> <<"/", "i", "c", "d", ".", "d", "/", "h", "a", "s", "v", "k",
                "_", "i", "n", "t", "e", "l", ".", "j", "s", "o", "n">>,
     radeon |-> <<"/", "i", "c", "d", ".", "d", "/", "r", "a", "d", "e", "o",
                "n", ".", "j", "s", "o", "n">>,
     nvidia |-> <<"/", "i", "c", "d", ".", "d", "/", "n", "v", "i", "d", "i",
                "a", ".", "j", "s", "o", "n">>]

\* Outputs of the vulkaninfo pipeline: two device names, a loader error.
Summary ==
    [uhd |-> <<"U", "H", "D", " ", "(", "G", "T", "2", ")">>,
     rx |-> <<"R", "X", " ", "(", "R", "A", "D", "V", ")">>,
     loader_error |-> <<"E", "R", "R", "O", "R", ":", " ", "[", "L", "o", "a",
                      "d", "e", "r", " ", "M", "e", "s", "s", "a", "g", "e",
                      "]", " ", "0">>]

\* Lines 689-690: the two markers of a failed vulkaninfo run.
NO_GPUS == <<"F", "a", "i", "l", "e", "d", " ", "t", "o", " ", "d", "e", "t",
    "e", "c", "t", " ", "a", "n", "y", " ", "v", "a", "l", "i", "d", " ",
    "G", "P", "U", "s">>
LOADER_MESSAGE == <<"E", "R", "R", "O", "R", ":", " ", "[", "L", "o", "a",
    "d", "e", "r", " ", "M", "e", "s", "s", "a", "g", "e", "]">>

\* Lines 774-793: the vendor a loader file is filed under, by its name.
Vendor(loader) ==
    IF Contains(loader, <<"i", "n", "t", "e", "l">>) THEN "intel"
    ELSE IF Contains(loader, <<"r", "a", "d", "e", "o", "n">>) THEN "amdradv"
    ELSE IF Contains(loader, <<"n", "v", "i", "d", "i", "a">>) THEN "nvidia"
    ELSE IF Contains(loader, <<"a", "m", "d">>)
    THEN (IF Contains(loader, <<"p", "r", "o">>) THEN "amdvlkpro" ELSE "amdvlk")
    ELSE "unknown"

\* Lines 774-793: the defaultdict filled in the order of the loader files; a
\* vendor gets an entry when its first file is seen.
RECURSIVE AddLoaders(_, _)
AddLoaders(sets, loaders) ==
    IF loaders = <<>> THEN sets
    ELSE LET vendor == Vendor(Head(loaders))
             seen == {i \in DOMAIN sets : sets[i].vendor = vendor}
         IN  AddLoaders(
                 IF seen = {}
                 THEN Append(sets, [vendor |-> vendor, files |-> <<Head(loaders)>>])
                 ELSE [i \in DOMAIN sets |->
                          IF i \in seen
                          THEN [sets[i] EXCEPT !.files = Append(@, Head(loaders))]
                          ELSE sets[i]],
                 Tail(loaders))

get_vk_icd_file_sets(all_icd_files) == AddLoaders(<<>>, all_icd_files)

\* Line 660: ":".join(fs)
JoinFiles(fs) == JoinWith([j \in DOMAIN fs |-> Join(fs[j])], ":")

\* Lines 660-661 with every vendor tag listed, present or not.
all_files_every_vendor(h) ==
    LET sets == get_vk_icd_file_sets(h.icd_files)
        tags == <<"intel", "amdradv", "nvidia", "amdvlk", "amdvlkpro", "unknown">>
        files(tag) == IF \E i \in DOMAIN sets : sets[i].vendor = tag
                      THEN sets[CHOOSE i \in DOMAIN sets : sets[i].vendor = tag].files
                      ELSE <<>>
    IN  [t \in DOMAIN tags |-> JoinFiles(files(tags[t]))] \o <<"">>

\* Lines 660-661: one ":"-joined string per vendor set, then "" for the
\* default loader choice.
all_files(h) ==
    LET sets == get_vk_icd_file_sets(h.icd_files)
    IN  [i \in DOMAIN sets |-> JoinFiles(sets[i].files)] \o <<"">>

\* Line 693: re.sub(r"\s*\(.*?\)", "", result), scanning from position i.  A
\* match starts with any run of whitespace, then "(", and ends at the first
\* ")" after it with no newline in between.
RECURSIVE StripParenthesised(_, _)
StripParenthesised(s, i) ==
    IF i > Len(s) THEN <<>>
    ELSE LET after == {j \in i..Len(s) : s[j] \notin Whitespace}
             open == IF after = {} THEN 0
                     ELSE CHOOSE j \in after : \A k \in after : j <= k
             closes == IF open = 0 \/ s[open] # "(" THEN {}
                       ELSE {k \in (open + 1)..Len(s) :
                                /\ s[k] = ")"
                                /\ \A m \in (open + 1)..(k - 1) : s[m] # "\n"}
         IN  IF closes = {} THEN <<s[i]>> \o StripParenthesised(s, i + 1)
             ELSE StripParenthesised(
                      s, 1 + CHOOSE k \in closes : \A m \in closes : k <= m)

\* Lines 669-693: fetch_vulkan_gpu_name(prime).
fetch_vulkan_gpu_name(h, icd_files, prime) ==
    LET output == strip(h.vulkaninfo[<<icd_files, prime>>])
    IN  IF Contains(output, NO_GPUS) \/ Contains(output, LOADER_MESSAGE)
        THEN "No GPU"
        ELSE Join(StripParenthesised(output, 1))

\* Lines 695-714: get_name(); logged is what logger.exception records.
get_name(h, icd_files, use_dri_prime) ==
    IF which(h, "vulkaninfo") = ""
    THEN [gpu |-> "Unknown GPU", logged |-> <<>>]
    ELSE IF h.popen = "raises"
    THEN [gpu |-> "Unknown GPU",
          logged |-> <<"Fail to load Vulkan GPU names">>]
    ELSE LET gpu == fetch_vulkan_gpu_name(h, icd_files, FALSE)
             prime_gpu == fetch_vulkan_gpu_name(h, icd_files, TRUE)
             named == IF use_dri_prime /\ prime_gpu # gpu
                      THEN gpu \o " (Discrete GPU: " \o prime_gpu \o ")"
                      ELSE gpu
         IN  [gpu |-> IF named = "" THEN "Not Found" ELSE named,
              logged |-> <<>>]

\* Line 652 answering with the bare key.
get_vulkan_gpu_name_key(cache, icd_files, use_dri_prime) ==
    IF <<icd_files, use_dri_prime>> \in DOMAIN cache
    THEN cache[<<icd_files, use_dri_prime>>]
    ELSE icd_files

\* Lines 646-652: get_vulkan_gpu_name(icd_files, use_dri_prime) on the cache.
get_vulkan_gpu_name(cache, icd_files, use_dri_prime) ==
    IF <<icd_files, use_dri_prime>> \in DOMAIN cache
    THEN cache[<<icd_files, use_dri_prime>>]
    ELSE "GPU Info Not Ready"

\* The loader file lists of the model.
IcdFileLists ==
    {<<>>, <<IcdFile.intel>>, <<IcdFile.intel, IcdFile.radeon, IcdFile.hasvk>>,
     <<IcdFile.radeon, IcdFile.nvidia>>,
     <<IcdFile.nvidia, IcdFile.intel, IcdFile.radeon>>}

\* What vulkaninfo prints for a loader choice: by the first loader's vendor;
\* with DRI_PRIME set, the discrete GPU when the host has one; for the default
\* choice, a device name or nothing at all.
GpuHost(path, icd_files, popen, discrete, default) ==
    LET sets == get_vk_icd_file_sets(icd_files)
        keys == {JoinFiles(sets[i].files) : i \in DOMAIN sets} \cup {""}
        plain(key) ==
            IF key = "" THEN default
            ELSE LET i == CHOOSE i \in DOMAIN sets :
                                 JoinFiles(sets[i].files) = key
                 IN  IF sets[i].vendor = "intel" THEN Summary.uhd
                     ELSE IF sets[i].vendor = "amdradv" THEN Summary.rx
                     ELSE Summary.loader_error
    IN  [path |-> path, files |-> {}, icd_files |-> icd_files, popen |-> popen,
         vulkaninfo |-> [k \in keys \X BOOLEAN |->
                            IF k[2] /\ discrete THEN Summary.rx
                            ELSE plain(k[1])]]

GpuHosts ==
    {GpuHost(path, icd_files, popen, discrete, default) :
        path \in SUBSET {"vulkaninfo"}, icd_files \in IcdFileLists,
        popen \in {"runs", "raises"}, discrete \in BOOLEAN,
        default \in {Summary.uhd, <<>>}}

InitGpu ==
    /\ host \in GpuHosts
    /\ result = NoCall
    /\ error_log = <<>>
    /\ LauncherIdle
    /\ GpuIdle

\* Lines 655-665: load_vulkan_gpu_names(use_dri_prime) starts one thread per
\* entry of all_files.  It is called once, when the application starts.
\* The field probe is what get_name() of the thread yields on this host: the
\* host does not change while the threads run, so the outcome of the pipeline
\* is fixed when the thread starts; the thread sees it at its own step.
CallLoadVulkanGpuNames ==
    /\ tasks = <<>>
    /\ \E use_dri_prime \in BOOLEAN :
          tasks' = [i \in DOMAIN all_files(host) |->
                       [icd_files |-> all_files(host)[i],
                        use_dri_prime |-> use_dri_prime,
                        probe |-> get_name(host, all_files(host)[i], use_dri_prime),
                        pc |-> "started", gpu |-> ""]]
    /\ UNCHANGED <<system_config, runner_env, gameplay_info, host, fsr_memo,
                   result, calls, error_log, vulkan_gpu_names>>

\* Lines 695-714 in thread i: the call get_name() of line 718.
TaskGetName(i) ==
    /\ tasks[i].pc = "started"
    /\ LET r == tasks[i].probe
       IN  /\ tasks' = [tasks EXCEPT ![i].pc = "named", ![i].gpu = r.gpu]
           /\ error_log' = IF r.logged = <<>> THEN error_log ELSE r.logged
    /\ UNCHANGED <<system_config, runner_env, gameplay_info, host, fsr_memo,
                   result, calls, vulkan_gpu_names>>

\* TaskStore that keeps a name of a failed probe out of the cache.
TaskStoreNamedOnly(i) ==
    /\ tasks[i].pc = "named"
    /\ LET key == <<tasks[i].icd_files, tasks[i].use_dri_prime>>
       IN  vulkan_gpu_names' =
               IF tasks[i].gpu = "Unknown GPU" THEN vulkan_gpu_names
               ELSE [k \in DOMAIN vulkan_gpu_names \cup {key} |->
                        IF k = key THEN tasks[i].gpu ELSE vulkan_gpu_names[k]]
    /\ tasks' = [tasks EXCEPT ![i].pc = "done"]
    /\ UNCHANGED <<system_config, runner_env, gameplay_info, host, fsr_memo,
                   result, calls, error_log>>

\* Lines 716-718 in thread i: the store into _vulkan_gpu_names.
TaskStore(i) ==
    /\ tasks[i].pc = "named"
    /\ LET key == <<tasks[i].icd_files, tasks[i].use_dri_prime>>
       IN  vulkan_gpu_names' =
               [k \in DOMAIN vulkan_gpu_names \cup {key} |->
                   IF k = key THEN tasks[i].gpu ELSE vulkan_gpu_names[k]]
    /\ tasks' = [tasks EXCEPT ![i].pc = "done"]
    /\ UNCHANGED <<system_config, runner_env, gameplay_info, host, fsr_memo,
                   result, calls, error_log>>

\* The keys a caller asks for: a loader choice of the host, or another one.
AskedFiles(h) ==
    {all_files(h)[i] : i \in DOMAIN all_files(h)} \cup {"/icd.d/other.json"}

\* Lines 646-652: one call get_vulkan_gpu_name(icd_files, use_dri_prime).
CallGetVulkanGpuName ==
    /\ \E icd_files \in AskedFiles(host), use_dri_prime \in BOOLEAN :
          result' = [fn |-> "get_vulkan_gpu_name", icd_files |-> icd_files,
                     use_dri_prime |-> use_dri_prime,
                     value |-> get_vulkan_gpu_name(vulkan_gpu_names, icd_files,
                                                   use_dri_prime)]
    /\ UNCHANGED <<system_config, runner_env, gameplay_info, host, fsr_memo,
                   calls, error_log, vulkan_gpu_names, tasks>>

NextGpu ==
    \/ CallLoadVulkanGpuNames
    \/ \E i \in DOMAIN tasks : TaskGetName(i)
    \/ \E i \in DOMAIN tasks : TaskStore(i)
    \/ CallGetVulkanGpuName

SpecGpu == InitGpu /\ [][NextGpu]_vars

\* The most threads one call of load_vulkan_gpu_names starts in the model:
\* one per vendor set of the host and one for the default choice.
MaxTasks == 4

\* The threads are scheduled fairly: a thread that can take its next step
\* takes it.  The vulkaninfo pipeline is taken to end (communicate() of line
\* 687 returns or raises).
SpecGpuFair ==
    /\ InitGpu
    /\ [][NextGpu]_vars
    /\ \A i \in 1..MaxTasks :
          /\ WF_vars(i \in DOMAIN tasks /\ TaskGetName(i))
          /\ WF_vars(i \in DOMAIN tasks /\ TaskStore(i))

\* ---------------------------------------------------------------------------
\* Claims about the GPU name cache (SpecGpu).
\* ---------------------------------------------------------------------------

\* The threads of the key <<icd_files, use_dri_prime>> that have stored their
\* name.
Written(icd_files, use_dri_prime) ==
    {i \in DOMAIN tasks : /\ tasks[i].icd_files = icd_files
                          /\ tasks[i].use_dri_prime = use_dri_prime
                          /\ tasks[i].pc = "done"}

\* C19: in every state of every interleaving of the caller with the loading
\* threads, get_vulkan_gpu_name(k) has a value for every key k, whatever the
\* threads are doing (the call reads the cache and waits for nothing): it is
\* "GPU Info Not Ready" when no thread of key k has stored its name yet, and
\* the name stored by the thread of key k once it has.
C19_PlaceholderUntilWritten ==
    \A icd_files \in AskedFiles(host), use_dri_prime \in BOOLEAN :
        LET written == Written(icd_files, use_dri_prime)
            value == get_vulkan_gpu_name(vulkan_gpu_names, icd_files,
                                         use_dri_prime)
        IN  IF written = {}
            THEN value = "GPU Info Not Ready"
            ELSE \A i \in written : value = tasks[i].gpu

\* A call answered with the stored name of a finished thread while another
\* thread is still running.
C19_Witness ==
    /\ result.fn = "get_vulkan_gpu_name"
    /\ result.value # "GPU Info Not Ready"
    /\ Written(result.icd_files, result.use_dri_prime) # {}
    /\ \E j \in DOMAIN tasks : tasks[j].pc = "started"

\* The cache key thread i writes.
KeyOf(i) == <<tasks[i].icd_files, tasks[i].use_dri_prime>>

\* C20: the threads started by load_vulkan_gpu_names write pairwise different
\* keys of _vulkan_gpu_names, and once all of them have stored their name the
\* cache is the same whatever the order they ran in: every key started holds
\* the name of its own loader choice.
C20_DisjointKeys ==
    /\ \A i, j \in DOMAIN tasks : i # j => KeyOf(i) # KeyOf(j)
    /\ (tasks # <<>> /\ \A i \in DOMAIN tasks : tasks[i].pc = "done") =>
          vulkan_gpu_names =
              [k \in {KeyOf(i) : i \in DOMAIN tasks} |->
                  get_name(host, k[1], k[2]).gpu]

\* Three threads have run to the end and stored different names.
C20_Witness ==
    /\ Len(tasks) >= 3
    /\ \A i \in DOMAIN tasks : tasks[i].pc = "done"
    /\ \E k1, k2 \in DOMAIN vulkan_gpu_names :
          vulkan_gpu_names[k1] # vulkan_gpu_names[k2]

----------------------------------------------------------------------------
(* The exported launch script: src/lutris/runner_interpreter.py, lines     *)
(* 164-187.  The script is one string, as written to script_path.          *)

\* The characters of a string.
Chars(s) == [i \in 1..Len(s) |-> SubSeq(s, i, i)]

\* shlex.quote(s): s itself when it is made of safe characters only, else s
\* between single quotes with every ' written as '"'"'.
shlex_quote(s) ==
    LET safe == WordChars \cup {"@", "%", "+", "=", ":", ",", ".", "/", "-"}
        quoted == [i \in 1..Len(s) |->
                      IF SubSeq(s, i, i) = "'" THEN "'\"'\"'" ELSE SubSeq(s, i, i)]
    IN  IF s = "" THEN "''"
        ELSE IF \A i \in 1..Len(s) : SubSeq(s, i, i) \in safe THEN s
        ELSE "'" \o Join(quoted) \o "'"

\* The names an environment of the model can hold, in the order the code
\* inserts them into env (lines 24-90), TERM coming last when line 169 adds it.
EnvNames ==
    <<"DISABLE_LAYER_AMD_SWITCHABLE_GRAPHICS_1", "LC_ALL", "MANGOHUD",
      "MANGOHUD_DLSYM", "WINEDEBUG", "LD_LIBRARY_PATH", "LD_PRELOAD", "TERM">>

\* Lines 170-182: the text of the script for command, env and gameplay_info.
script_content(command, env, gi) ==
    LET names == SelectSeq(EnvNames, LAMBDA name : name \in DOMAIN env)
        exports == [i \in DOMAIN names |->
                       "export " \o names[i] \o "=\"" \o env[names[i]] \o "\"\n"]
        cd == IF "working_dir" \in DOMAIN gi
              THEN "\n# Working Directory\n"
                     \o "cd " \o shlex_quote(gi.working_dir) \o "\n"
              ELSE ""
    IN  "#!/bin/bash\n\n\n" \o "# Environment variables\n" \o Join(exports)
          \o cd \o "\n# Command\n"
          \o JoinWith([i \in DOMAIN command |-> shlex_quote(command[i])], " ")

\* Lines 164-187: export_bash_script(runner, gameplay_info, script_path).
\* launch is the working state at the end of get_launch_parameters; when that
\* call raises, nothing is written.
export_bash_script(cfg, renv, gi, h, memo) ==
    LET launch == get_launch_parameters(cfg, renv, gi, h, memo)
        env == SetKey(launch.env, "TERM", "xterm")
    IN  IF launch.err # ""
        THEN [status |-> launch.err, launch |-> launch, written |-> FALSE,
              script |-> "", executable |-> FALSE]
        ELSE [status |-> "ok", launch |-> launch, written |-> TRUE,
              script |-> script_content(launch.args, env, gi),
              executable |-> TRUE]

\* The launches exported: the environment stages on and off, a runner that
\* sets TERM itself, a command with tokens to quote, a working directory.
InitExport ==
    /\ \E mangohud, single_cpu \in BOOLEAN, locale \in {"", "fr_FR.UTF-8"} :
          system_config =
              [locale |-> locale]
                @@ [StagesOff EXCEPT !.mangohud = mangohud,
                                     !.single_cpu = single_cpu,
                                     !.limit_cpu_count =
                                         IF single_cpu THEN <<"sup2">> ELSE <<>>]
                @@ GamescopeUnset
    /\ host \in ObservableHosts(system_config, TRUE)
    /\ runner_env \in RunnerEnvs \cup {[k \in {"TERM"} |-> "dumb"],
                                      [k \in {"TERM"} |-> "xterm"]}
    /\ \E command \in {<<"game">>, <<"wine", "my game.exe", "it's">>},
          env \in GameplayEnvs, ld_library_path \in {"", "/game/lib"},
          working_dir \in {"", "/games/half life"} :
          LET gi == [command |-> command, env |-> env, ld_preload |-> "",
                     ld_library_path |-> ld_library_path]
          IN  gameplay_info = IF working_dir = "" THEN gi
                              ELSE gi @@ [working_dir |-> working_dir]
    /\ fsr_memo = <<>>
    /\ calls = 0
    /\ result = NoCall
    /\ error_log = <<>>
    /\ GpuIdle

\* One call export_bash_script(runner, gameplay_info, script_path); result
\* holds what get_launch_parameters returned and the file at script_path.
CallExportBashScript ==
    /\ result = NoCall
    /\ LET r == export_bash_script(system_config, runner_env, gameplay_info,
                                   host, fsr_memo)
       IN  /\ result' = [fn |-> "export_bash_script", status |-> r.status,
                         command |-> r.launch.args, env |-> r.launch.env,
                         written |-> r.written, script |-> r.script,
                         executable |-> r.executable]
           /\ gameplay_info' = [gameplay_info EXCEPT !.command = r.launch.cmd]
           /\ fsr_memo' = r.launch.memo
    /\ calls' = calls + 1
    /\ UNCHANGED <<system_config, runner_env, host, error_log,
                   vulkan_gpu_names, tasks>>

NextExport == CallExportBashScript

SpecExport == InitExport /\ [][NextExport]_vars

\* str.splitlines() of a text ending without a newline: the pieces between
\* the "\n" characters, in order.
ScriptLines(text) ==
    LET c == Chars(text)
        ends == {i \in DOMAIN c : c[i] = "\n"} \cup {Len(c) + 1}
        starts == {1} \cup {i + 1 : i \in ends \ {Len(c) + 1}}
    IN  [k \in 1..Cardinality(starts) |->
            LET p == CHOOSE p \in starts :
                         Cardinality({q \in starts : q < p}) = k - 1
                e == CHOOSE e \in ends :
                         e >= p /\ \A f \in ends : f >= p => e <= f
            IN  SubSeq(c, p, e - 1)]

\* The lines of a script that set a variable, read back: for every line
\* export NAME="value", NAME is the text up to the first "=" and value the
\* text between the double quotes around the rest; a later line of the same
\* name replaces an earlier one.
RECURSIVE ParseExports(_, _)
ParseExports(lines, env) ==
    IF lines = <<>> THEN env
    ELSE LET line == Head(lines)
             rest == SubSeq(line, 8, Len(line))
             equals == {i \in DOMAIN rest : rest[i] = "="}
             eq == CHOOSE i \in equals : \A j \in equals : i <= j
             value == SubSeq(rest, eq + 1, Len(rest))
         IN  IF /\ StartsWith(line, <<"e", "x", "p", "o", "r", "t", " ">>)
                /\ equals # {}
                /\ Len(value) >= 2 /\ value[1] = "\"" /\ value[Len(value)] = "\""
             THEN ParseExports(
                      Tail(lines),
                      SetKey(env, Join(SubSeq(rest, 1, eq - 1)),
                             Join(SubSeq(value, 2, Len(value) - 1))))
             ELSE ParseExports(Tail(lines), env)

\* C21: for a launch whose environment values hold no " and no $, the
\* export NAME="value" lines of the written script, read back, give exactly
\* the environment get_launch_parameters returned: same keys, same values.
C21_ExportRoundTrip ==
    (result.fn = "export_bash_script" /\ result.written) =>
        ParseExports(ScriptLines(result.script), EmptyMap) = result.env

----------------------------------------------------------------------------
(* Vulkan ICD discovery: src/lutris/util/system.py, lines 39-47 and        *)
(* 721-793.  A host of this part has environ, the environment variables,   *)
(* and files, the regular files below the search directories; paths are    *)
(* strings, and a directory exists when a file of the host lies below it.  *)

\* Lines 39-47.
FALLBACK_VULKAN_DATA_DIRS ==
    <<"/usr/local/etc", "/usr/local/share", "/etc", "/usr/share",
      "/usr/lib/x86_64-linux-gnu/GL", "/usr/lib/i386-linux-gnu/GL",
      "/opt/amdgpu-pro/etc">>

\* os.getenv(name) or default; the default of a HOME that is not set is built
\* by the f-string from None.
getenv_or(h, name, default) ==
    IF name \in DOMAIN h.environ /\ h.environ[name] # "" THEN h.environ[name]
    ELSE IF name = "HOME" THEN "None"
    ELSE default

\* Lines 741-760: the arguments of the calls of add_icd_search_path, in the
\* order the calls are made.
SearchPathArguments(h) ==
    <<getenv_or(h, "XDG_CONFIG_HOME", getenv_or(h, "HOME", "") \o "/.config"),
      getenv_or(h, "XDG_CONFIG_DIRS", "/etc/xdg"),
      "/etc",
      getenv_or(h, "XDG_DATA_HOME", getenv_or(h, "HOME", "") \o "/.local/share"),
      getenv_or(h, "XDG_DATA_DIRS", "/usr/local/share:/usr/share")>>
      \o FALLBACK_VULKAN_DATA_DIRS

\* The arguments in the order XDG config, XDG data, system, fallback list.
SearchPathArgumentsDataFirst(h) ==
    <<getenv_or(h, "XDG_CONFIG_HOME", getenv_or(h, "HOME", "") \o "/.config"),
      getenv_or(h, "XDG_CONFIG_DIRS", "/etc/xdg"),
      getenv_or(h, "XDG_DATA_HOME", getenv_or(h, "HOME", "") \o "/.local/share"),
      getenv_or(h, "XDG_DATA_DIRS", "/usr/local/share:/usr/share"),
      "/etc">>
      \o FALLBACK_VULKAN_DATA_DIRS

\* os.path.exists of a directory.
dir_exists(h, path) == \E f \in h.files : StartsWith(f, path \o "/")

\* Lines 730-736: add_icd_search_path(paths) on the list all_icd_search_paths.
RECURSIVE add_icd_search_path(_, _, _)
add_icd_search_path(h, all_icd_search_paths, paths) ==
    IF paths = <<>> THEN all_icd_search_paths
    ELSE LET dir == Join(Head(paths))
             path == IF dir = "" THEN "vulkan"
                     ELSE IF SubSeq(dir, Len(dir), Len(dir)) = "/"
                     THEN dir \o "vulkan"
                     ELSE dir \o "/vulkan"
             seen == \E i \in DOMAIN all_icd_search_paths :
                         all_icd_search_paths[i] = path
         IN  add_icd_search_path(
                 h,
                 IF dir_exists(h, path) /\ ~seen
                 THEN Append(all_icd_search_paths, path)
                 ELSE all_icd_search_paths,
                 Tail(paths))

\* The search directories after the calls of add_icd_search_path on arguments.
RECURSIVE SearchPaths(_, _, _)
SearchPaths(h, all_icd_search_paths, arguments) ==
    IF arguments = <<>> THEN all_icd_search_paths
    ELSE SearchPaths(
             h,
             IF Head(arguments) = "" THEN all_icd_search_paths
             ELSE add_icd_search_path(h, all_icd_search_paths,
                                      split(Chars(Head(arguments)), ":")),
             Tail(arguments))

\* The characters of the paths of the model in the order of their code points.
CodePointOrder ==
    <<"-", ".", "/", "0", "1", "2", "3", "4", "5", "6", "7", "8", "9">>
      \o UpperCase \o <<"_">> \o LowerCase

\* a < b for two str.
StrLess(a, b) ==
    LET rank(c) == CHOOSE r \in DOMAIN CodePointOrder : CodePointOrder[r] = c
    IN  \E i \in 1..(Len(a) + 1) :
           /\ i <= Len(b)
           /\ SubSeq(a, 1, i - 1) = SubSeq(b, 1, i - 1)
           /\ \/ i = Len(a) + 1
              \/ rank(SubSeq(a, i, i)) < rank(SubSeq(b, i, i))

\* Lines 765-768: sorted(glob.glob(data_dir/icd.d/*.json)).
sorted_glob(h, data_dir) ==
    LET prefix == data_dir \o "/icd.d/"
        name(f) == SubSeq(f, Len(prefix) + 1, Len(f))
        found == {f \in h.files :
                     /\ StartsWith(f, prefix)
                     /\ Len(name(f)) >= 5
                     /\ SubSeq(f, Len(f) - 4, Len(f)) = ".json"
                     /\ SubSeq(name(f), 1, 1) # "."
                     /\ ~Contains(name(f), "/")}
    IN  [k \in 1..Cardinality(found) |->
            CHOOSE f \in found :
                Cardinality({g \in found : StrLess(g, f)}) = k - 1]

\* Lines 762-772: the files of the search directories, directory by directory.
RECURSIVE IcdFilesOf(_, _)
IcdFilesOf(h, all_icd_search_paths) ==
    IF all_icd_search_paths = <<>> THEN <<>>
    ELSE sorted_glob(h, Head(all_icd_search_paths))
           \o IcdFilesOf(h, Tail(all_icd_search_paths))

\* Lines 725-772: get_vk_icd_files() for a list of search path arguments.
get_vk_icd_files(h, arguments) ==
    LET files == IcdFilesOf(h, SearchPaths(h, <<>>, arguments))
    IN  [i \in DOMAIN files |-> Chars(files[i])]

\* The files a host of the model may hold.
IcdCandidates ==
    {"/home/u/.config/vulkan/icd.d/intel_icd.json",
     "/etc/vulkan/icd.d/intel_icd.json",
     "/etc/vulkan/icd.d/amd_pro_icd.json",
     "/usr/share/vulkan/icd.d/intel_icd.json",
     "/usr/share/vulkan/icd.d/intel_hasvk_icd.json",
     "/usr/share/vulkan/icd.d/radeon_icd.json",
     "/usr/share/vulkan/icd.d/nvidia_icd.json",
     "/opt/amdgpu-pro/etc/vulkan/icd.d/amd_icd64.json"}

\* Files of /usr/local/share: a loader of no known vendor, amdvlk, a hidden
\* file, a file that is no descriptor, a descriptor one level too deep.
IcdExtras ==
    {"/usr/local/share/vulkan/icd.d/lvp_icd.json",
     "/usr/local/share/vulkan/icd.d/amd_icd.json",
     "/usr/local/share/vulkan/icd.d/.hidden.json",
     "/usr/local/share/vulkan/icd.d/README",
     "/usr/local/share/vulkan/icd.d/old/intel_icd.json"}

IcdHosts ==
    {[environ |-> [k \in {"HOME"} |-> "/home/u"] @@ config @@ data,
      files |-> files \cup extras] :
        config \in {EmptyMap, [k \in {"XDG_CONFIG_HOME"} |-> "/etc"]},
        data \in {EmptyMap, [k \in {"XDG_DATA_DIRS"} |-> "/usr/share::/etc/"]},
        files \in SUBSET IcdCandidates, extras \in {{}, IcdExtras}}

InitIcd ==
    /\ host \in IcdHosts
    /\ result = NoCall
    /\ error_log = <<>>
    /\ LauncherIdle
    /\ GpuIdle

\* One call get_vk_icd_file_sets().
CallGetVkIcdFileSets ==
    /\ result = NoCall
    /\ LET all_icd_files == get_vk_icd_files(host, SearchPathArguments(host))
       IN  result' = [fn |-> "get_vk_icd_file_sets",
                      all_icd_files |-> all_icd_files,
                      sets |-> get_vk_icd_file_sets(all_icd_files)]
    /\ UNCHANGED <<system_config, runner_env, gameplay_info, host, fsr_memo,
                   calls, error_log, vulkan_gpu_names, tasks>>

NextIcd == CallGetVkIcdFileSets

SpecIcd == InitIcd /\ [][NextIcd]_vars

\* C22: the descriptor files are discovered in the directory order XDG config
\* (home, then dirs), XDG data, system, fallback list, each existing
\* directory once, lexically within a directory, and every file is in exactly
\* one vendor set, the sets keeping the order of discovery.
C22_DiscoveryOrder ==
    result.fn = "get_vk_icd_file_sets" =>
        /\ result.all_icd_files =
               get_vk_icd_files(host, SearchPathArgumentsDataFirst(host))
        /\ \A i \in DOMAIN result.all_icd_files :
              \E s \in DOMAIN result.sets :
                 /\ \E j \in DOMAIN result.sets[s].files :
                       result.sets[s].files[j] = result.all_icd_files[i]
                 /\ \A t \in DOMAIN result.sets : t # s =>
                       \A j \in DOMAIN result.sets[t].files :
                          result.sets[t].files[j] # result.all_icd_files[i]

----------------------------------------------------------------------------
(* Folder removal: src/lutris/util/system.py, lines 353-388.  A host of    *)
(* this part has dirs, the directories that exist, and trash, the paths    *)
(* handed to the trash portal; "~" expands to /home/u.                     *)

\* The directories of the model and the directory each one lies in.
ParentDir == [homes |-> "root", home |-> "homes", games |-> "home", data |-> "root"]

\* The paths of the model: the directory a path leads to, the directories
\* met on the way, and whether the path itself is a symbolic link.
PathTable ==
    [p \in {"/home/u", "/home/u/", "/home/u/games", "/home/u/games/..",
            "/mnt/u", "/mnt/data", "/data", "/home", "/nonexistent", ""} |->
        CASE p \in {"/home/u", "/home/u/"} ->
                 [target |-> "home", via |-> {"homes"}, link |-> FALSE]
          [] p = "/home/u/games" ->
                 [target |-> "games", via |-> {"homes", "home"}, link |-> FALSE]
          [] p = "/home/u/games/.." ->
                 [target |-> "home", via |-> {"homes", "home", "games"},
                  link |-> FALSE]
          [] p = "/mnt/u" -> [target |-> "home", via |-> {"homes"}, link |-> TRUE]
          [] p = "/mnt/data" -> [target |-> "data", via |-> {}, link |-> TRUE]
          [] p = "/data" -> [target |-> "data", via |-> {}, link |-> FALSE]
          [] p = "/home" -> [target |-> "homes", via |-> {}, link |-> FALSE]
          [] OTHER -> [target |-> "none", via |-> {}, link |-> FALSE]]

\* os.path.exists(path): symbolic links are followed.
exists(h, path) ==
    /\ PathTable[path].target \in h.dirs
    /\ PathTable[path].via \subseteq h.dirs

\* The guard of lines 379-380 comparing the two path strings.
samefile_home_by_name(h, path) == IF path = "/home/u" THEN "same" ELSE "other"

\* os.path.samefile(os.path.expanduser("~"), path): "raises" when one of the
\* two cannot be stat'ed.
samefile_home(h, path) ==
    IF ~exists(h, "/home/u") \/ ~exists(h, path) THEN "raises"
    ELSE IF PathTable[path].target = "home" THEN "same"
    ELSE "other"

\* The directories below d, d included.
RECURSIVE Below(_, _)
Below(h, d) ==
    {d} \cup UNION {Below(h, c) : c \in {c \in h.dirs : ParentDir[c] = d}}

\* shutil.rmtree(path): the outcomes it can have.  It refuses a symbolic
\* link; it can fail part of the way, leaving any of the directories that
\* hold another one that is left.
rmtree(h, path) ==
    IF PathTable[path].link
    THEN {[raised |-> TRUE, dirs |-> h.dirs]}
    ELSE LET tree == Below(h, PathTable[path].target)
         IN  {[raised |-> FALSE, dirs |-> h.dirs \ tree]}
               \cup {[raised |-> TRUE, dirs |-> h.dirs \ gone] :
                        gone \in {g \in SUBSET tree :
                                     /\ g # tree
                                     /\ \A d \in g : Below(h, d) \subseteq g}}

\* Lines 371-388: delete_folder(path) with the outcome rm of shutil.rmtree.
delete_folder(h, path, rm) ==
    IF ~exists(h, path)
    THEN [status |-> "returned", value |-> "False", host |-> h, logged |-> <<>>]
    ELSE IF samefile_home(h, path) = "same"
    THEN [status |-> "RuntimeError", value |-> "", host |-> h, logged |-> <<>>]
    ELSE IF samefile_home(h, path) = "raises"
    THEN [status |-> "FileNotFoundError", value |-> "", host |-> h,
          logged |-> <<>>]
    ELSE [status |-> "returned",
          value |-> IF rm.raised THEN "False" ELSE "True",
          host |-> [h EXCEPT !.dirs = rm.dirs],
          logged |-> IF rm.raised THEN <<"Failed to delete folder">> ELSE <<>>]

\* Lines 353-368: remove_folder(path); TrashPortal(path) hands the path over.
remove_folder(h, path) ==
    IF ~exists(h, path)
    THEN [status |-> "returned", value |-> "None", host |-> h, logged |-> <<>>]
    ELSE IF samefile_home(h, path) = "same"
    THEN [status |-> "RuntimeError", value |-> "", host |-> h, logged |-> <<>>]
    ELSE IF samefile_home(h, path) = "raises"
    THEN [status |-> "FileNotFoundError", value |-> "", host |-> h,
          logged |-> <<>>]
    ELSE [status |-> "returned", value |-> "None",
          host |-> [h EXCEPT !.trash = Append(@, path)], logged |-> <<>>]

\* Every directory stands in one that exists.
FolderHosts ==
    [dirs : {ds \in SUBSET DOMAIN ParentDir :
                \A d \in ds : ParentDir[d] \in ds \cup {"root"}},
     trash : {<<>>}]

InitFolders ==
    /\ host \in FolderHosts
    /\ result = NoCall
    /\ error_log = <<>>
    /\ LauncherIdle
    /\ GpuIdle

\* One call delete_folder(path).
CallDeleteFolder ==
    /\ calls < MaxCalls
    /\ \E path \in DOMAIN PathTable :
          \E rm \in rmtree(host, path) :
             LET r == delete_folder(host, path, rm)
             IN  /\ result' = [fn |-> "delete_folder", path |-> path,
                               status |-> r.status, value |-> r.value]
                 /\ host' = r.host
                 /\ error_log' = r.logged
    /\ calls' = calls + 1
    /\ UNCHANGED <<system_config, runner_env, gameplay_info, fsr_memo,
                   vulkan_gpu_names, tasks>>

\* One call remove_folder(path).
CallRemoveFolder ==
    /\ calls < MaxCalls
    /\ \E path \in DOMAIN PathTable :
          LET r == remove_folder(host, path)
          IN  /\ result' = [fn |-> "remove_folder", path |-> path,
                            status |-> r.status, value |-> r.value]
              /\ host' = r.host
              /\ error_log' = r.logged
    /\ calls' = calls + 1
    /\ UNCHANGED <<system_config, runner_env, gameplay_info, fsr_memo,
                   vulkan_gpu_names, tasks>>

NextFolders == CallDeleteFolder \/ CallRemoveFolder

SpecFolders == InitFolders /\ [][NextFolders]_vars

\* C23: a call of delete_folder or remove_folder on a path that is the home
\* directory raises and leaves the directories and the trash as they were; a
\* call on a path that does not exist returns, False from delete_folder, and
\* leaves them as they were too.
C23_FilesystemGuard ==
    [][calls' = calls + 1 =>
         /\ (exists(host, result'.path)
               /\ PathTable[result'.path].target = "home") =>
               (result'.status # "returned" /\ host' = host)
         /\ ~exists(host, result'.path) =>
               /\ result'.status = "returned"
               /\ host' = host
               /\ result'.fn = "delete_folder" => result'.value = "False"]_vars

\* A call on another name of the home directory, with a folder of games in
\* it, has raised RuntimeError.
C23_Witness ==
    /\ result.fn \in {"delete_folder", "remove_folder"}
    /\ result.path \in {"/home/u/", "/mnt/u", "/home/u/games/.."}
    /\ result.status = "RuntimeError"
    /\ "games" \in host.dirs

----------------------------------------------------------------------------
(* python_identifier: src/lutris/util/system.py, lines 292-301.  The       *)
(* argument is a sequence of characters, or None for a value that is no    *)
(* str.                                                                    *)

\* The end (exclusive) of the longest run of [\w-] of s that starts at i.
RECURSIVE BodyEnd(_, _)
BodyEnd(s, i) ==
    IF i <= Len(s) /\ s[i] \in WordChars \cup {"-"} THEN BodyEnd(s, i + 1) ELSE i

\* The end of the text of s from i up to the next "}", whatever it holds.
RECURSIVE BodyEndAny(_, _)
BodyEndAny(s, i) == IF i <= Len(s) /\ s[i] # "}" THEN BodyEndAny(s, i + 1) ELSE i

\* DashReplFrom for a placeholder body of any characters but "}".
RECURSIVE DashReplFromAnyBody(_, _)
DashReplFromAnyBody(s, i) ==
    IF i > Len(s) THEN <<>>
    ELSE LET close == BodyEndAny(s, i + 2)
         IN  IF /\ s[i] = "$"
                /\ i < Len(s) /\ s[i + 1] = "{"
                /\ close <= Len(s) /\ s[close] = "}"
             THEN [k \in 1..(close - i + 1) |->
                      IF s[i + k - 1] = "-" THEN "_" ELSE s[i + k - 1]]
                    \o DashReplFromAnyBody(s, close + 1)
             ELSE <<s[i]>> \o DashReplFromAnyBody(s, i + 1)

\* Lines 298-301: re.sub(r"(\${)([\w-]*)(})", _dashrepl, s) from position i
\* on; a match is written with every "-" replaced by "_" and the scan goes on
\* behind it.
RECURSIVE DashReplFrom(_, _)
DashReplFrom(s, i) ==
    IF i > Len(s) THEN <<>>
    ELSE LET close == BodyEnd(s, i + 2)
         IN  IF /\ s[i] = "$"
                /\ i < Len(s) /\ s[i + 1] = "{"
                /\ close <= Len(s) /\ s[close] = "}"
             THEN [k \in 1..(close - i + 1) |->
                      IF s[i + k - 1] = "-" THEN "_" ELSE s[i + k - 1]]
                    \o DashReplFrom(s, close + 1)
             ELSE <<s[i]>> \o DashReplFrom(s, i + 1)

\* Lines 292-301: python_identifier(unsafe_string).
python_identifier(unsafe_string) ==
    IF unsafe_string = None
    THEN [value |-> None,
          logged |-> <<"Cannot convert to a python identifier">>]
    ELSE [value |-> DashReplFrom(unsafe_string, 1), logged |-> <<>>]

\* The arguments are made of at most MaxPieces of these pieces.
MaxPieces == 4
IdentifierPieces ==
    {<<"$">>, <<"{">>, <<"}">>, <<"-">>, <<"a">>, <<" ">>, <<"$", "{">>,
     <<"$", "{", "a", "-", "b", "}">>}

RECURSIVE IdentifierArguments(_)
IdentifierArguments(n) ==
    IF n = 0 THEN {<<>>}
    ELSE IdentifierArguments(n - 1)
           \cup {s \o p : s \in IdentifierArguments(n - 1), p \in IdentifierPieces}

InitIdentifier ==
    /\ host = EmptyMap
    /\ result = NoCall
    /\ error_log = <<>>
    /\ LauncherIdle
    /\ GpuIdle

\* One call python_identifier(unsafe_string).
CallPythonIdentifier ==
    /\ result = NoCall
    /\ \E unsafe_string \in IdentifierArguments(MaxPieces) \cup {None} :
          LET r == python_identifier(unsafe_string)
          IN  /\ result' = [fn |-> "python_identifier",
                            unsafe_string |-> unsafe_string, value |-> r.value]
              /\ error_log' = r.logged
    /\ UNCHANGED <<system_config, runner_env, gameplay_info, host, fsr_memo,
                   calls, vulkan_gpu_names, tasks>>

NextIdentifier == CallPythonIdentifier

SpecIdentifier == InitIdentifier /\ [][NextIdentifier]_vars

\* Position i of s lies in the body of a placeholder ${...} whose body holds
\* word characters and dashes only.
InPlaceholder(s, i) ==
    \E open \in 1..(i - 2), close \in (i + 1)..Len(s) :
       /\ s[open] = "$" /\ s[open + 1] = "{" /\ s[close] = "}"
       /\ \A k \in (open + 2)..(close - 1) : s[k] \in WordChars \cup {"-"}

\* C24: python_identifier returns its argument with "-" replaced by "_" at
\* the positions that lie in the body of a placeholder ${...} made of word
\* characters and dashes only, in every such placeholder of the string, and
\* with every other character as it was: the dashes outside placeholders and
\* those of a placeholder that holds another character stay.
C24_DashesInPlaceholders ==
    (result.fn = "python_identifier" /\ result.unsafe_string # None) =>
        LET s == result.unsafe_string
        IN  result.value =
                [i \in 1..Len(s) |->
                    IF s[i] = "-" /\ InPlaceholder(s, i) THEN "_" ELSE s[i]]

\* Two placeholders were rewritten and a dash between them was kept.
C24_Witness ==
    /\ result.fn = "python_identifier"
    /\ result.unsafe_string # None
    /\ \E i, j, k \in 1..Len(result.unsafe_string) :
          /\ i < j /\ j < k
          /\ result.unsafe_string[i] = "-" /\ result.value[i] = "_"
          /\ result.unsafe_string[j] = "-" /\ result.value[j] = "-"
          /\ result.unsafe_string[k] = "-" /\ result.value[k] = "_"

----------------------------------------------------------------------------
(* Repeating a launch (Spec) *)

\* C25: a call of get_launch_parameters leaves the command list stored in
\* gameplay_info as it was, and a second call in a row, on the same runner,
\* gameplay_info and host, returns the command the first call returned.
C25_Repeatable ==
    [][calls' = calls + 1 =>
         /\ gameplay_info'.command = gameplay_info.command
         /\ (calls = 1 /\ result.status = "ok") =>
               (result'.status = "ok" /\ result'.command = result.command)]_vars

----------------------------------------------------------------------------
(* Termination of the GPU name threads (SpecGpuFair) *)

\* C26: under fair scheduling every thread started by load_vulkan_gpu_names
\* ends with a name stored under its own key, "Unknown GPU" when vulkaninfo
\* is missing or the probe raises; from then on get_vulkan_gpu_name of a
\* started key never answers "GPU Info Not Ready" again.
C26_EveryTaskWrites ==
    <>[](\A i \in DOMAIN tasks :
            LET name == get_vulkan_gpu_name(vulkan_gpu_names, tasks[i].icd_files,
                                            tasks[i].use_dri_prime)
            IN  /\ tasks[i].pc = "done"
                /\ name # "GPU Info Not Ready"
                /\ name = tasks[i].gpu
                /\ (which(host, "vulkaninfo") = "" \/ host.popen = "raises") =>
                      name = "Unknown GPU")

\* Every thread of a host without vulkaninfo has stored "Unknown GPU".
C26_Witness ==
    /\ Len(tasks) >= 2
    /\ which(host, "vulkaninfo") = ""
    /\ \A i \in DOMAIN tasks :
          /\ tasks[i].pc = "done"
          /\ KeyOf(i) \in DOMAIN vulkan_gpu_names
          /\ vulkan_gpu_names[KeyOf(i)] = "Unknown GPU"
====
